---- MODULE Spec2Model ----
(***************************************************************************)
(* A model of the schema documentation generator                           *)
(* (local_resources/typedb/generate_schema_docs.py): the SchemaModel data  *)
(* structure and its resolver queries, the line-oriented TypeQL parser     *)
(* with its kind-resolution pass, and the Mermaid diagram emitters; and of  *)
(* the connection handling of TypeDBClient                                 *)
(* (src/skillful_alhazen/mcp/typedb_client.py).                            *)
(*                                                                         *)
(* Representation.                                                         *)
(*  - A piece of text the program computes on (a type, attribute, relation *)
(*    or role name, a section title) is the sequence of its characters:    *)
(*    "a-b" is <<"a","-","b">> and the empty string is <<>>.               *)
(*  - Kinds, namespaces, value types and comment texts, which the program  *)
(*    only stores and compares, are strings.                               *)
(*  - A source LINE is a record whose field cls says which of the parser's *)
(*    regular expressions the (rstripped) text matches, with the groups    *)
(*    the regular expression captures as the other fields.                 *)
(*  - model.types is a Python dict: `types` is the mapping and `order` the *)
(*    insertion order of its keys, which iteration over the dict follows.  *)
(***************************************************************************)
EXTENDS Naturals, Sequences, FiniteSets, TLC

VARIABLES
    types,            \* SchemaModel.types: name -> TypeDef
    order,            \* insertion order of the keys of SchemaModel.types
    phase,            \* where the run is: "idle", "top", "body", "resolve", "built",
                      \* "docs", "wiki", "raised", "done"
    nextFile,         \* _parse_model: index of the next source file to parse
    source_name,      \* parse_tql_file: namespace of the file being parsed
    current_section,  \* parse_tql_file: current_section
    comment_block,    \* parse_tql_file: comment_block
    look,             \* parse_tql_file: lines[i], lines[i+1], ... as far as revealed
    eof,              \* parse_tql_file: TRUE when `look` is all that is left of the file
    nread,            \* number of source lines revealed so far (all files)
    typedef,          \* parse_tql_file: name of the type whose multi-line body is read
    rIdx,             \* _resolve_kinds: number of items of the for loop already taken
    rWalk,            \* _resolve_kinds: TRUE inside the while loop
    rName,            \* _resolve_kinds: name (the type being resolved)
    rCurrent,         \* _resolve_kinds: current
    rChain,           \* _resolve_kinds: chain
    anc,              \* get_ancestors: the frame of the call in progress
    out,              \* the value the last call returned
    query_examples,   \* main: query_examples, by namespace
    written,          \* main: the files written to the output directory, in order
    wiki_written,     \* main: the files written to the wiki directory, in order
    _driver,          \* TypeDBClient._driver: None or the driver held
    opened,           \* number of drivers TypeDB.core_driver has returned so far
    closed,           \* the drivers close() has been called on
    last,             \* the last call made on the client, and whether it raised
    scope             \* "in" inside a `with client:` block, else "out"

parseVars   == <<source_name, current_section, comment_block, look, eof, nread, typedef>>
resolveVars == <<rIdx, rWalk, rName, rCurrent, rChain>>
vars == <<types, order, phase, nextFile, source_name, current_section,
          comment_block, look, eof, nread, typedef, rIdx, rWalk, rName, rCurrent, rChain,
          anc, out, query_examples, written, wiki_written,
          _driver, opened, closed, last, scope>>
queryVars == <<anc, out>>
mainVars == <<query_examples, written, wiki_written>>
clientVars == <<_driver, opened, closed, last, scope>>

----------------------------------------------------------------------------
(* Bounds of the model. *)

\* Source lines revealed in one run, over all files.
MaxLines == 4

\* Drivers TypeDB.core_driver returns in one run.
MaxDrivers == 4

----------------------------------------------------------------------------
(* Data model *)

NoName == <<>>
entity == <<"e", "n", "t", "i", "t", "y">>
relation == <<"r", "e", "l", "a", "t", "i", "o", "n">>
attribute == <<"a", "t", "t", "r", "i", "b", "u", "t", "e">>
RootNames == {entity, relation, attribute}

OwnsClause(attr, is_key, defined_in) ==
    [attribute |-> attr, is_key |-> is_key, defined_in |-> defined_in]

PlaysClause(rel, role, defined_in) ==
    [relation |-> rel, role |-> role, defined_in |-> defined_in]

RelatesClause(role, defined_in) ==
    [role |-> role, defined_in |-> defined_in]

\* TypeDef(...) with the dataclass defaults for the fields not given.
TypeDef(name, kind, parent, value_type, defined_in, comment, section) ==
    [name |-> name, kind |-> kind, parent |-> parent, is_abstract |-> FALSE,
     value_type |-> value_type, owns |-> <<>>, plays |-> <<>>, relates |-> <<>>,
     defined_in |-> defined_in, comment |-> comment, section |-> section]

\* model.types[name] = td, keeping dict insertion order.
Put(T, name, td) ==
    [n \in (DOMAIN T) \cup {name} |-> IF n = name THEN td ELSE T[n]]

Range(s) == {s[i] : i \in 1..Len(s)}

\* sub in s, for two texts.
Contains(s, sub) ==
    \E i \in 0..Len(s) :
        i + Len(sub) <= Len(s) /\ SubSeq(s, i + 1, i + Len(sub)) = sub

UpperCase == <<"A", "B", "C", "D", "E", "F", "G", "H", "I", "J", "K", "L", "M",
               "N", "O", "P", "Q", "R", "S", "T", "U", "V", "W", "X", "Y", "Z">>
LowerCase == <<"a", "b", "c", "d", "e", "f", "g", "h", "i", "j", "k", "l", "m",
               "n", "o", "p", "q", "r", "s", "t", "u", "v", "w", "x", "y", "z">>

\* s.lower()
Lower(s) ==
    [i \in 1..Len(s) |->
        IF \E k \in 1..Len(UpperCase) : UpperCase[k] = s[i]
        THEN LowerCase[CHOOSE k \in 1..Len(UpperCase) : UpperCase[k] = s[i]]
        ELSE s[i]]

NoDup(s) == \A i, j \in 1..Len(s) : s[i] = s[j] => i = j

\* Python's None, where the other values are the drivers 1, 2, ...
None == 0

\* TypeDBClient.__init__: no driver is held, and nothing has been called yet.
ClientInit ==
    /\ _driver = None
    /\ opened = 0
    /\ closed = {}
    /\ last = [fn |-> "none", raised |-> FALSE]
    /\ scope = "out"

----------------------------------------------------------------------------
(* Inheritance resolver: SchemaModel.get_ancestors and friends *)

\* The frame of get_ancestors if `seen` started with the name itself in it.
AncStart_SeenName(name) ==
    [name |-> name, current |-> name, seen |-> {name}, ancestors |-> <<>>, done |-> FALSE]

\* The frame of one get_ancestors call.
AncStart(name) ==
    [name |-> name, current |-> name, seen |-> {}, ancestors |-> <<>>, done |-> FALSE]

AncIter_StopsAtName(T, st) ==
    IF st.current \in DOMAIN T /\ T[st.current].parent # NoName
    THEN LET parent == T[st.current].parent IN
         IF parent \in st.seen \/ parent = st.name
         THEN [st EXCEPT !.done = TRUE]
         ELSE [st EXCEPT !.seen = @ \cup {parent},
                         !.ancestors = Append(@, parent),
                         !.current = parent]
    ELSE [st EXCEPT !.done = TRUE]

\* One evaluation of the while condition and, when it holds, of the loop body.
AncIter(T, st) ==
    IF st.current \in DOMAIN T /\ T[st.current].parent # NoName
    THEN LET parent == T[st.current].parent IN
         IF parent \in st.seen
         THEN [st EXCEPT !.done = TRUE]
         ELSE [st EXCEPT !.seen = @ \cup {parent},
                         !.ancestors = Append(@, parent),
                         !.current = parent]
    ELSE [st EXCEPT !.done = TRUE]

RECURSIVE AncRun(_, _)
AncRun(T, st) == IF st.done THEN st.ancestors ELSE AncRun(T, AncIter(T, st))

GetAncestors(T, name) == AncRun(T, AncStart(name))

\* The inner loop of get_inherited_owns over one ancestor's owns list:
\* acc = [result, own_attrs].
RECURSIVE InhOwnsOf(_, _, _, _)
InhOwnsOf(owns, ancestor, k, acc) ==
    IF k > Len(owns) THEN acc
    ELSE LET o == owns[k] IN
         IF o.attribute \notin acc.own_attrs
         THEN InhOwnsOf(owns, ancestor, k + 1,
                        [result |-> Append(acc.result, <<o, ancestor>>),
                         own_attrs |-> acc.own_attrs \cup {o.attribute}])
         ELSE InhOwnsOf(owns, ancestor, k + 1, acc)

RECURSIVE InhOwnsLoop(_, _, _, _)
InhOwnsLoop(T, ancs, k, acc) ==
    IF k > Len(ancs) THEN acc.result
    ELSE IF ancs[k] \notin DOMAIN T
         THEN InhOwnsLoop(T, ancs, k + 1, acc)
         ELSE InhOwnsLoop(T, ancs, k + 1, InhOwnsOf(T[ancs[k]].owns, ancs[k], 1, acc))

\* get_inherited_owns with own_attrs starting empty.
GetInheritedOwns_NoOwnAttrs(T, name) ==
    InhOwnsLoop(T, GetAncestors(T, name), 1, [result |-> <<>>, own_attrs |-> {}])

\* get_inherited_owns(name): a sequence of <<OwnsClause, inherited_from>>.
GetInheritedOwns(T, name) ==
    InhOwnsLoop(T, GetAncestors(T, name), 1,
                [result |-> <<>>,
                 own_attrs |-> {T[name].owns[i].attribute : i \in 1..Len(T[name].owns)}])

RECURSIVE InhPlaysOf(_, _, _, _)
InhPlaysOf(plays, ancestor, k, acc) ==
    IF k > Len(plays) THEN acc
    ELSE LET p == plays[k] IN
         IF <<p.relation, p.role>> \notin acc.own_plays
         THEN InhPlaysOf(plays, ancestor, k + 1,
                         [result |-> Append(acc.result, <<p, ancestor>>),
                          own_plays |-> acc.own_plays \cup {<<p.relation, p.role>>}])
         ELSE InhPlaysOf(plays, ancestor, k + 1, acc)

RECURSIVE InhPlaysLoop(_, _, _, _)
InhPlaysLoop(T, ancs, k, acc) ==
    IF k > Len(ancs) THEN acc.result
    ELSE IF ancs[k] \notin DOMAIN T
         THEN InhPlaysLoop(T, ancs, k + 1, acc)
         ELSE InhPlaysLoop(T, ancs, k + 1, InhPlaysOf(T[ancs[k]].plays, ancs[k], 1, acc))

\* get_inherited_plays with own_plays starting empty.
GetInheritedPlays_NoOwnPlays(T, name) ==
    InhPlaysLoop(T, GetAncestors(T, name), 1, [result |-> <<>>, own_plays |-> {}])

\* get_inherited_plays(name): a sequence of <<PlaysClause, inherited_from>>.
GetInheritedPlays(T, name) ==
    InhPlaysLoop(T, GetAncestors(T, name), 1,
                 [result |-> <<>>,
                  own_plays |-> {<<T[name].plays[i].relation, T[name].plays[i].role>> :
                                    i \in 1..Len(T[name].plays)}])

----------------------------------------------------------------------------
(* TQL parser: source lines *)

\* `# ---` / `# ===`: RE_SECTION_HEADER.
SepLine == [cls |-> "sep"]
\* `# text`: RE_COMMENT, text = group(1).strip(); title is group(1).strip() of
\* RE_SECTION_TITLE, and <<>> when that expression does not match the line.
CommentLine(text, title) == [cls |-> "comment", text |-> text, title |-> title]
BlankLine == [cls |-> "blank"]
DefineLine == [cls |-> "define"]
\* `name sub attribute, value vt;`: RE_ATTRIBUTE_DEF.
AttrLine(name, vt) == [cls |-> "attr", name |-> name, value_type |-> vt]
\* `name plays rel:role;`: RE_BARE_PLAYS.
BarePlaysLine(name, rel, role) ==
    [cls |-> "bare_plays", name |-> name, relation |-> rel, role |-> role]
\* `name owns attr [@key];`: RE_BARE_OWNS.
BareOwnsLine(name, attr, key) ==
    [cls |-> "bare_owns", name |-> name, attribute |-> attr, is_key |-> key]
\* `name sub parent` + term + rest: RE_TYPE_START; abstract: "abstract" in rest.
\* closed: the line ends with `;`, so the whole statement is on it.
TypeLine(name, parent, term, abstract) ==
    [cls |-> "type", name |-> name, parent |-> parent, term |-> term,
     abstract |-> abstract, closed |-> term = ";"]
\* `name sub parent, abstract;` or `name sub parent, owns attr;`: a statement
\* with clauses that is closed on its start line.  RE_TYPE_START stops at the
\* first `,` or `;` behind the parent, which is the `,` here.
InlineTypeLine(name, parent, abstract) ==
    [cls |-> "type", name |-> name, parent |-> parent, term |-> ",",
     abstract |-> abstract, closed |-> TRUE]
\* `    abstract` + term: RE_ABSTRACT.
AbstractLine(term) == [cls |-> "abstract", term |-> term]
\* `    owns attr [@key]` + term: RE_OWNS.
OwnsLine(attr, key, term) ==
    [cls |-> "owns", attribute |-> attr, is_key |-> key, term |-> term]
\* `    plays rel:role` + term: RE_PLAYS.
PlaysLine(rel, role, term) ==
    [cls |-> "plays", relation |-> rel, role |-> role, term |-> term]
\* `    relates role` + term: RE_RELATES.
RelatesLine(role, term) == [cls |-> "relates", role |-> role, term |-> term]
\* A line no expression matches.
OtherLine == [cls |-> "other"]

\* The classes no top-level expression matches: indented clause lines and junk.
TopUnmatched == {"abstract", "owns", "plays", "relates", "other"}
\* The classes the multi-line body loop recognises.
BodyClauses == {"abstract", "owns", "plays", "relates"}

classify_type(parent) ==
    IF parent = attribute THEN "attribute"
    ELSE IF parent = relation THEN "relation"
    ELSE IF parent = entity THEN "entity"
    ELSE ""

\* " ".join(comment_block) if comment_block else "": the texts with " " between.
RECURSIVE Join(_)
Join(block) ==
    IF block = <<>> THEN <<>>
    ELSE IF Len(block) = 1 THEN block
    ELSE <<Head(block), " ">> \o Join(Tail(block))

----------------------------------------------------------------------------
(* TQL parser: parse_tql_file.  The file is revealed line by line: `look`   *)
(* holds lines[i..] as far as the parser has had to read them, and `eof`    *)
(* says that nothing follows them.  The parser reads forward only, at most  *)
(* two lines beyond lines[i] (_is_separator(i + 2)).                        *)

\* _is_separator(i + k - 1), once the line is revealed.
IsSeparator(k) == k <= Len(look) /\ look[k].cls = "sep"

\* The header test at the top of the loop reads lines[i + 2] when lines[i] is a
\* separator; every other test reads lines[i] alone.
NeedLine ==
    /\ ~eof
    /\ IF look = <<>> THEN TRUE
       ELSE phase = "top" /\ look[1].cls = "sep" /\ Len(look) < 3

Revealed == look # <<>> /\ ~NeedLine

Rest(k) == SubSeq(look, k + 1, Len(look))

\* filepath.read_text().splitlines(): the next line of the file is l.
ReadLine(L) ==
    /\ phase \in {"top", "body"}
    /\ NeedLine
    /\ nread < MaxLines
    /\ \E l \in L : look' = Append(look, l)
    /\ nread' = nread + 1
    /\ UNCHANGED <<types, order, phase, nextFile, source_name, current_section,
                   comment_block, eof, typedef, rIdx, rWalk, rName, rCurrent, rChain>>
    /\ UNCHANGED queryVars
    /\ UNCHANGED mainVars
    /\ UNCHANGED clientVars

\* The file has no further line.
ReadEof ==
    /\ phase \in {"top", "body"}
    /\ NeedLine
    /\ eof' = TRUE
    /\ UNCHANGED <<types, order, phase, nextFile, source_name, current_section,
                   comment_block, look, nread, typedef, rIdx, rWalk, rName, rCurrent, rChain>>
    /\ UNCHANGED queryVars
    /\ UNCHANGED mainVars
    /\ UNCHANGED clientVars

\* separator / title / separator: sets current_section, skips all three lines.
SectionHeaderBlock ==
    /\ phase = "top" /\ Revealed
    /\ IsSeparator(1) /\ Len(look) >= 3 /\ IsSeparator(3)
    /\ LET title_line == look[2] IN
       current_section' =
           IF /\ title_line.cls = "comment"
              /\ title_line.title # <<>>
              /\ Len(title_line.title) > 3
              /\ ~Contains(title_line.title, <<"E", "N", "D">>)
           THEN title_line.title
           ELSE current_section
    /\ look' = Rest(3)
    /\ UNCHANGED <<types, order, phase, nextFile, source_name, comment_block,
                   eof, nread, typedef, rIdx, rWalk, rName, rCurrent, rChain>>
    /\ UNCHANGED queryVars
    /\ UNCHANGED mainVars
    /\ UNCHANGED clientVars

\* A standalone separator line.
SeparatorLine ==
    /\ phase = "top" /\ Revealed
    /\ IsSeparator(1) /\ ~(Len(look) >= 3 /\ IsSeparator(3))
    /\ look' = Rest(1)
    /\ UNCHANGED <<types, order, phase, nextFile, source_name, current_section,
                   comment_block, eof, nread, typedef, rIdx, rWalk, rName, rCurrent, rChain>>
    /\ UNCHANGED queryVars
    /\ UNCHANGED mainVars
    /\ UNCHANGED clientVars

\* A comment line: its text joins the pending comment block.
CommentStep ==
    /\ phase = "top" /\ Revealed
    /\ look[1].cls = "comment"
    /\ comment_block' = IF look[1].text # "" THEN Append(comment_block, look[1].text)
                        ELSE comment_block
    /\ look' = Rest(1)
    /\ UNCHANGED <<types, order, phase, nextFile, source_name, current_section,
                   eof, nread, typedef, rIdx, rWalk, rName, rCurrent, rChain>>
    /\ UNCHANGED queryVars
    /\ UNCHANGED mainVars
    /\ UNCHANGED clientVars

\* A blank line or a `define` line.
BlankOrDefine ==
    /\ phase = "top" /\ Revealed
    /\ look[1].cls \in {"blank", "define"}
    /\ comment_block' = IF look[1].cls = "blank" THEN <<>> ELSE comment_block
    /\ look' = Rest(1)
    /\ UNCHANGED <<types, order, phase, nextFile, source_name, current_section,
                   eof, nread, typedef, rIdx, rWalk, rName, rCurrent, rChain>>
    /\ UNCHANGED queryVars
    /\ UNCHANGED mainVars
    /\ UNCHANGED clientVars

\* `name sub attribute, value vt;`
AttributeDef ==
    /\ phase = "top" /\ Revealed
    /\ look[1].cls = "attr"
    /\ LET name == look[1].name IN
       IF name \notin DOMAIN types
       THEN /\ types' = Put(types, name,
                            TypeDef(name, "attribute", attribute, look[1].value_type,
                                    source_name, Join(comment_block), current_section))
            /\ order' = Append(order, name)
       ELSE UNCHANGED <<types, order>>
    /\ comment_block' = <<>>
    /\ look' = Rest(1)
    /\ UNCHANGED <<phase, nextFile, source_name, current_section,
                   eof, nread, typedef, rIdx, rWalk, rName, rCurrent, rChain>>
    /\ UNCHANGED queryVars
    /\ UNCHANGED mainVars
    /\ UNCHANGED clientVars

\* BarePlays as it would be if the placeholder were left without the clause.
BarePlays_EmptyPlaceholder ==
    /\ phase = "top" /\ Revealed
    /\ look[1].cls = "bare_plays"
    /\ LET type_name == look[1].name
           clause == PlaysClause(look[1].relation, look[1].role, source_name)
       IN IF type_name \in DOMAIN types
          THEN /\ types' = [types EXCEPT ![type_name].plays = Append(@, clause)]
               /\ order' = order
          ELSE /\ types' = Put(types, type_name,
                               TypeDef(type_name, "entity", NoName, "", source_name,
                                       <<>>, <<>>))
               /\ order' = Append(order, type_name)
    /\ comment_block' = <<>>
    /\ look' = Rest(1)
    /\ UNCHANGED <<phase, nextFile, source_name, current_section,
                   eof, nread, typedef, rIdx, rWalk, rName, rCurrent, rChain>>
    /\ UNCHANGED queryVars
    /\ UNCHANGED mainVars
    /\ UNCHANGED clientVars

\* `name plays rel:role;`
BarePlays ==
    /\ phase = "top" /\ Revealed
    /\ look[1].cls = "bare_plays"
    /\ LET type_name == look[1].name
           clause == PlaysClause(look[1].relation, look[1].role, source_name)
       IN IF type_name \in DOMAIN types
          THEN /\ types' = [types EXCEPT ![type_name].plays = Append(@, clause)]
               /\ order' = order
          ELSE /\ types' = Put(types, type_name,
                               [TypeDef(type_name, "entity", NoName, "", source_name,
                                        <<>>, <<>>)
                                  EXCEPT !.plays = <<clause>>])
               /\ order' = Append(order, type_name)
    /\ comment_block' = <<>>
    /\ look' = Rest(1)
    /\ UNCHANGED <<phase, nextFile, source_name, current_section,
                   eof, nread, typedef, rIdx, rWalk, rName, rCurrent, rChain>>
    /\ UNCHANGED queryVars
    /\ UNCHANGED mainVars
    /\ UNCHANGED clientVars

BareOwns_Placeholder ==
    /\ phase = "top" /\ Revealed
    /\ look[1].cls = "bare_owns"
    /\ LET type_name == look[1].name
           clause == OwnsClause(look[1].attribute, look[1].is_key, source_name)
       IN IF type_name \in DOMAIN types
          THEN /\ types' = [types EXCEPT ![type_name].owns = Append(@, clause)]
               /\ order' = order
          ELSE /\ types' = Put(types, type_name,
                               [TypeDef(type_name, "entity", NoName, "", source_name,
                                        <<>>, <<>>)
                                  EXCEPT !.owns = <<clause>>])
               /\ order' = Append(order, type_name)
    /\ comment_block' = <<>>
    /\ look' = Rest(1)
    /\ UNCHANGED <<phase, nextFile, source_name, current_section,
                   eof, nread, typedef, rIdx, rWalk, rName, rCurrent, rChain>>
    /\ UNCHANGED queryVars
    /\ UNCHANGED mainVars
    /\ UNCHANGED clientVars

\* `name owns attr [@key];`
BareOwns ==
    /\ phase = "top" /\ Revealed
    /\ look[1].cls = "bare_owns"
    /\ LET type_name == look[1].name
           clause == OwnsClause(look[1].attribute, look[1].is_key, source_name)
       IN IF type_name \in DOMAIN types
          THEN types' = [types EXCEPT ![type_name].owns = Append(@, clause)]
          ELSE types' = types
    /\ comment_block' = <<>>
    /\ look' = Rest(1)
    /\ UNCHANGED <<order, phase, nextFile, source_name, current_section,
                   eof, nread, typedef, rIdx, rWalk, rName, rCurrent, rChain>>
    /\ UNCHANGED queryVars
    /\ UNCHANGED mainVars
    /\ UNCHANGED clientVars

TypeStart_Redefines ==
    /\ phase = "top" /\ Revealed
    /\ look[1].cls = "type"
    /\ LET name == look[1].name
           parent == look[1].parent
           kind == classify_type(parent)
           existed == name \in DOMAIN types
           td == IF existed THEN [types[name] EXCEPT !.defined_in = source_name]
                 ELSE TypeDef(name, kind, parent, "", source_name,
                              Join(comment_block), current_section)
       IN /\ types' = Put(types, name,
                          IF look[1].abstract THEN [td EXCEPT !.is_abstract = TRUE]
                          ELSE td)
          /\ order' = IF existed THEN order ELSE Append(order, name)
          /\ typedef' = name
    /\ comment_block' = <<>>
    /\ phase' = IF look[1].term = ";" THEN "top" ELSE "body"
    /\ look' = Rest(1)
    /\ UNCHANGED <<nextFile, source_name, current_section,
                   eof, nread, rIdx, rWalk, rName, rCurrent, rChain>>
    /\ UNCHANGED queryVars
    /\ UNCHANGED mainVars
    /\ UNCHANGED clientVars

\* `name sub parent,` or `name sub parent;`
TypeStart ==
    /\ phase = "top" /\ Revealed
    /\ look[1].cls = "type"
    /\ LET name == look[1].name
           parent == look[1].parent
           kind == classify_type(parent)
           existed == name \in DOMAIN types
           td == IF existed THEN types[name]
                 ELSE TypeDef(name, kind, parent, "", source_name,
                              Join(comment_block), current_section)
       IN /\ types' = Put(types, name,
                          IF look[1].abstract THEN [td EXCEPT !.is_abstract = TRUE]
                          ELSE td)
          /\ order' = IF existed THEN order ELSE Append(order, name)
          /\ typedef' = name
    /\ comment_block' = <<>>
    /\ phase' = IF look[1].term = ";" THEN "top" ELSE "body"
    /\ look' = Rest(1)
    /\ UNCHANGED <<nextFile, source_name, current_section,
                   eof, nread, rIdx, rWalk, rName, rCurrent, rChain>>
    /\ UNCHANGED queryVars
    /\ UNCHANGED mainVars
    /\ UNCHANGED clientVars

\* Unrecognized as it would be without `comment_block = []`.
Unrecognized_KeepsComments ==
    /\ phase = "top" /\ Revealed
    /\ look[1].cls \in TopUnmatched
    /\ look' = Rest(1)
    /\ UNCHANGED <<types, order, phase, nextFile, source_name, current_section,
                   comment_block, eof, nread, typedef, rIdx, rWalk, rName, rCurrent,
                   rChain>>
    /\ UNCHANGED queryVars
    /\ UNCHANGED mainVars
    /\ UNCHANGED clientVars

\* A top-level line that matches nothing.
Unrecognized ==
    /\ phase = "top" /\ Revealed
    /\ look[1].cls \in TopUnmatched
    /\ comment_block' = <<>>
    /\ look' = Rest(1)
    /\ UNCHANGED <<types, order, phase, nextFile, source_name, current_section,
                   eof, nread, typedef, rIdx, rWalk, rName, rCurrent, rChain>>
    /\ UNCHANGED queryVars
    /\ UNCHANGED mainVars
    /\ UNCHANGED clientVars

\* After a clause line of the body: `;` leaves the body loop.
AfterClause(term) == IF term = ";" THEN "top" ELSE "body"

BodyAbstract ==
    /\ phase = "body" /\ Revealed
    /\ look[1].cls = "abstract"
    /\ types' = [types EXCEPT ![typedef].is_abstract = TRUE]
    /\ phase' = AfterClause(look[1].term)
    /\ look' = Rest(1)
    /\ UNCHANGED <<order, nextFile, source_name, current_section, comment_block,
                   eof, nread, typedef, rIdx, rWalk, rName, rCurrent, rChain>>
    /\ UNCHANGED queryVars
    /\ UNCHANGED mainVars
    /\ UNCHANGED clientVars

\* BodyOwns as it would be if the `@key` group were not looked at.
BodyOwns_NoKey ==
    /\ phase = "body" /\ Revealed
    /\ look[1].cls = "owns"
    /\ LET attr_name == look[1].attribute
           existing == {types[typedef].owns[k].attribute :
                           k \in 1..Len(types[typedef].owns)}
       IN types' = IF attr_name \notin existing
                   THEN [types EXCEPT ![typedef].owns =
                            Append(@, OwnsClause(attr_name, FALSE, source_name))]
                   ELSE types
    /\ phase' = AfterClause(look[1].term)
    /\ look' = Rest(1)
    /\ UNCHANGED <<order, nextFile, source_name, current_section, comment_block,
                   eof, nread, typedef, rIdx, rWalk, rName, rCurrent, rChain>>
    /\ UNCHANGED queryVars
    /\ UNCHANGED mainVars
    /\ UNCHANGED clientVars

BodyOwns ==
    /\ phase = "body" /\ Revealed
    /\ look[1].cls = "owns"
    /\ LET attr_name == look[1].attribute
           existing == {types[typedef].owns[k].attribute :
                           k \in 1..Len(types[typedef].owns)}
       IN types' = IF attr_name \notin existing
                   THEN [types EXCEPT ![typedef].owns =
                            Append(@, OwnsClause(attr_name, look[1].is_key, source_name))]
                   ELSE types
    /\ phase' = AfterClause(look[1].term)
    /\ look' = Rest(1)
    /\ UNCHANGED <<order, nextFile, source_name, current_section, comment_block,
                   eof, nread, typedef, rIdx, rWalk, rName, rCurrent, rChain>>
    /\ UNCHANGED queryVars
    /\ UNCHANGED mainVars
    /\ UNCHANGED clientVars

BodyPlays ==
    /\ phase = "body" /\ Revealed
    /\ look[1].cls = "plays"
    /\ LET rel == look[1].relation
           role == look[1].role
           existing == {<<types[typedef].plays[k].relation, types[typedef].plays[k].role>> :
                           k \in 1..Len(types[typedef].plays)}
       IN types' = IF <<rel, role>> \notin existing
                   THEN [types EXCEPT ![typedef].plays =
                            Append(@, PlaysClause(rel, role, source_name))]
                   ELSE types
    /\ phase' = AfterClause(look[1].term)
    /\ look' = Rest(1)
    /\ UNCHANGED <<order, nextFile, source_name, current_section, comment_block,
                   eof, nread, typedef, rIdx, rWalk, rName, rCurrent, rChain>>
    /\ UNCHANGED queryVars
    /\ UNCHANGED mainVars
    /\ UNCHANGED clientVars

BodyRelates ==
    /\ phase = "body" /\ Revealed
    /\ look[1].cls = "relates"
    /\ LET role_name == look[1].role
           existing == {types[typedef].relates[k].role :
                           k \in 1..Len(types[typedef].relates)}
       IN types' = IF role_name \notin existing
                   THEN [types EXCEPT ![typedef].relates =
                            Append(@, RelatesClause(role_name, source_name))]
                   ELSE types
    /\ phase' = AfterClause(look[1].term)
    /\ look' = Rest(1)
    /\ UNCHANGED <<order, nextFile, source_name, current_section, comment_block,
                   eof, nread, typedef, rIdx, rWalk, rName, rCurrent, rChain>>
    /\ UNCHANGED queryVars
    /\ UNCHANGED mainVars
    /\ UNCHANGED clientVars

\* Any other line inside a body is passed over.
BodySkip ==
    /\ phase = "body" /\ Revealed
    /\ look[1].cls \notin BodyClauses
    /\ look' = Rest(1)
    /\ UNCHANGED <<types, order, phase, nextFile, source_name, current_section,
                   comment_block, eof, nread, typedef, rIdx, rWalk, rName, rCurrent, rChain>>
    /\ UNCHANGED queryVars
    /\ UNCHANGED mainVars
    /\ UNCHANGED clientVars

\* i = len(lines): both loops end and _resolve_kinds(model) is called.
EndOfFile ==
    /\ phase \in {"top", "body"}
    /\ look = <<>> /\ eof
    /\ phase' = "resolve"
    /\ rIdx' = 0 /\ rWalk' = FALSE /\ rName' = NoName /\ rCurrent' = NoName
    /\ rChain' = <<>>
    /\ UNCHANGED <<types, order, nextFile, source_name, current_section,
                   comment_block, look, eof, nread, typedef>>
    /\ UNCHANGED queryVars
    /\ UNCHANGED mainVars
    /\ UNCHANGED clientVars

----------------------------------------------------------------------------
(* _resolve_kinds: the for loop over model.types.items() and, for a type    *)
(* whose kind is unset, the while loop up its parent chain.                 *)

\* The head of the for loop: the next item, or the return.
ResolveFor ==
    /\ phase = "resolve" /\ ~rWalk
    /\ IF rIdx = Len(order)
       THEN /\ phase' = "idle"
            /\ UNCHANGED <<rIdx, rWalk, rName, rCurrent, rChain>>
       ELSE LET name == order[rIdx + 1] IN
            /\ rIdx' = rIdx + 1
            /\ phase' = phase
            /\ IF types[name].kind # ""
               THEN UNCHANGED <<rWalk, rName, rCurrent, rChain>>
               ELSE /\ rWalk' = TRUE
                    /\ rName' = name
                    /\ rChain' = <<name>>
                    /\ rCurrent' = types[name].parent
    /\ UNCHANGED <<types, order, nextFile, source_name, current_section,
                   comment_block, look, eof, nread, typedef>>
    /\ UNCHANGED queryVars
    /\ UNCHANGED mainVars
    /\ UNCHANGED clientVars

ResolveWhile_NoFallback ==
    /\ phase = "resolve" /\ rWalk
    /\ Len(rChain) <= Cardinality(DOMAIN types)
    /\ IF rCurrent # NoName /\ rCurrent \in DOMAIN types
       THEN IF types[rCurrent].kind # ""
            THEN /\ types' = [types EXCEPT ![rName].kind = types[rCurrent].kind]
                 /\ rWalk' = FALSE
                 /\ UNCHANGED <<rCurrent, rChain>>
            ELSE /\ rChain' = Append(rChain, rCurrent)
                 /\ rCurrent' = types[rCurrent].parent
                 /\ UNCHANGED <<types, rWalk>>
       ELSE /\ types' = types
            /\ rWalk' = FALSE
            /\ UNCHANGED <<rCurrent, rChain>>
    /\ UNCHANGED <<order, phase, nextFile, source_name, current_section,
                   comment_block, look, eof, nread, typedef, rIdx, rName>>
    /\ UNCHANGED queryVars
    /\ UNCHANGED mainVars
    /\ UNCHANGED clientVars

\* One test of the while condition, with the loop body or the fallback after it.
\* The model follows a walk until chain holds more names than the model has
\* types: from there on the walk is passing a type it has passed before, with
\* the same `current`, and so repeats for ever.
ResolveWhile ==
    /\ phase = "resolve" /\ rWalk
    /\ Len(rChain) <= Cardinality(DOMAIN types)
    /\ IF rCurrent # NoName /\ rCurrent \in DOMAIN types
       THEN IF types[rCurrent].kind # ""
            THEN /\ types' = [types EXCEPT ![rName].kind = types[rCurrent].kind]
                 /\ rWalk' = FALSE
                 /\ UNCHANGED <<rCurrent, rChain>>
            ELSE /\ rChain' = Append(rChain, rCurrent)
                 /\ rCurrent' = types[rCurrent].parent
                 /\ UNCHANGED <<types, rWalk>>
       ELSE /\ types' = [types EXCEPT ![rName].kind = "entity"]
            /\ rWalk' = FALSE
            /\ UNCHANGED <<rCurrent, rChain>>
    /\ UNCHANGED <<order, phase, nextFile, source_name, current_section,
                   comment_block, look, eof, nread, typedef, rIdx, rName>>
    /\ UNCHANGED queryVars
    /\ UNCHANGED mainVars
    /\ UNCHANGED clientVars

----------------------------------------------------------------------------
(* _parse_model: the root file, then the extension files in sorted order.   *)

\* Namespaces of the source files in processing order: alhazen_notebook.tql
\* ("core"), then sorted(namespaces/*.tql).
FileNames == <<"core", "apm">>

\* parse_tql_file(f, model) for the next file that exists.
StartFile ==
    /\ phase = "idle"
    /\ \E f \in nextFile..Len(FileNames) :
         /\ source_name' = FileNames[f]
         /\ nextFile' = f + 1
    /\ phase' = "top"
    /\ current_section' = <<>>
    /\ comment_block' = <<>>
    /\ look' = <<>> /\ eof' = FALSE
    /\ UNCHANGED <<types, order, nread, typedef, rIdx, rWalk, rName, rCurrent, rChain>>
    /\ UNCHANGED queryVars
    /\ UNCHANGED mainVars
    /\ UNCHANGED clientVars

\* No further file exists: _parse_model returns the model.
Finish ==
    /\ phase = "idle"
    /\ phase' = "built"
    /\ UNCHANGED <<types, order, nextFile, source_name, current_section,
                   comment_block, look, eof, nread, typedef, rIdx, rWalk, rName, rCurrent, rChain>>
    /\ UNCHANGED queryVars
    /\ UNCHANGED mainVars
    /\ UNCHANGED clientVars

\* The keys of NAMESPACE_META, in the order of the dict.
NAMESPACE_META == <<"core", "scilit", "jobhunt", "apm">>

----------------------------------------------------------------------------
(* main() behind _parse_model: the query examples are loaded, index.md and   *)
(* one page per key of NAMESPACE_META are written to the output directory,  *)
(* and with --wiki the same pages are written to the wiki directory.  Each  *)
(* write is a step, since an exception between two writes leaves the files  *)
(* written before it.  Nothing in main looks at what was parsed or at       *)
(* whether any source file was found.                                       *)

\* What generate_namespace_page finds in query_examples for a namespace: no
\* entry ("none"), a list of sections it can render ("sections"), or a value
\* it raises on ("malformed": a section without `title` or `examples`, an
\* example without `title` or `query`, a value that is no list of dicts).
\* A file whose top-level value is no container (a number, null) raises at the
\* first page, as with a malformed entry for the first namespace.
NoExamples == [k \in 1..Len(NAMESPACE_META) |-> "none"]

ExampleFiles ==
    {NoExamples}
    \cup {[NoExamples EXCEPT ![k] = c] :
            k \in 1..Len(NAMESPACE_META), c \in {"sections", "malformed"}}

\* query_examples = {} and nothing written.
MainInit ==
    /\ query_examples = NoExamples
    /\ written = <<>>
    /\ wiki_written = <<>>

\* f"{ns}.md"
DocFileName(ns) == ns \o ".md"

WIKI_PAGE_NAMES ==
    <<<<"S", "c", "h", "e", "m", "a", ":", " ", "C", "o", "r", "e">>,
      <<"S", "c", "h", "e", "m", "a", ":", " ", "S", "c", "i", "e", "n", "t", "i", "f", "i", "c", " ", "L", "i", "t", "e", "r", "a", "t", "u", "r", "e">>,
      <<"S", "c", "h", "e", "m", "a", ":", " ", "J", "o", "b", " ", "H", "u", "n", "t", "i", "n", "g">>,
      <<"S", "c", "h", "e", "m", "a", ":", " ", "P", "r", "e", "c", "i", "s", "i", "o", "n", " ", "M", "e", "d", "i", "c", "i", "n", "e">>>>

WIKI_INDEX_NAME == <<"S", "c", "h", "e", "m", "a", " ", "R", "e", "f", "e", "r", "e", "n", "c", "e">>

\* s.replace(": ", ":-")
RECURSIVE ReplaceColonSpace(_)
ReplaceColonSpace(s) ==
    IF Len(s) < 2 THEN s
    ELSE IF s[1] = ":" /\ s[2] = " "
         THEN <<":", "-">> \o ReplaceColonSpace(SubSeq(s, 3, Len(s)))
         ELSE <<s[1]>> \o ReplaceColonSpace(Tail(s))

\* s.replace(" ", "-")
ReplaceSpace(s) == [i \in 1..Len(s) |-> IF s[i] = " " THEN "-" ELSE s[i]]

\* _wiki_filename(page_name)
_wiki_filename(page_name) ==
    ReplaceSpace(ReplaceColonSpace(page_name)) \o <<".", "m", "d">>

\* `if examples_file.exists(): query_examples = json.loads(...)`: the file is
\* absent, or is no JSON text (json.loads raises), or holds one of ExampleFiles.
LoadExamples ==
    /\ phase = "built"
    /\ \/ /\ phase' = "docs"
          /\ query_examples' = query_examples
       \/ /\ phase' = "raised"
          /\ query_examples' = query_examples
       \/ /\ phase' = "docs"
          /\ \E q \in ExampleFiles : query_examples' = q
    /\ UNCHANGED <<types, order, nextFile, parseVars, resolveVars, anc, out,
                   written, wiki_written>>
    /\ UNCHANGED clientVars

\* (output_dir / "index.md").write_text(generate_index_page(model))
WriteIndex ==
    /\ phase = "docs" /\ written = <<>>
    /\ written' = <<"index.md">>
    /\ UNCHANGED <<types, order, phase, nextFile, parseVars, resolveVars, anc, out,
                   query_examples, wiki_written>>
    /\ UNCHANGED clientVars

\* One turn of `for ns in NAMESPACE_META`: generate_namespace_page returns and
\* the page is written, or it raises and the run ends with the files written
\* so far.
WritePage ==
    /\ phase = "docs" /\ Len(written) \in 1..Len(NAMESPACE_META)
    /\ LET k == Len(written) IN
       IF query_examples[k] = "malformed"
       THEN /\ phase' = "raised"
            /\ written' = written
       ELSE /\ phase' = phase
            /\ written' = Append(written, DocFileName(NAMESPACE_META[k]))
    /\ UNCHANGED <<types, order, nextFile, parseVars, resolveVars, anc, out,
                   query_examples, wiki_written>>
    /\ UNCHANGED clientVars

\* `if args.wiki:` behind the loop: no --wiki option, or a wiki directory that
\* does not exist (main prints an error and returns), or one that exists.  The
\* second load of the examples reads the file the first load read, and only
\* when that gave an empty value: query_examples stays as it is.
WikiOption ==
    /\ phase = "docs" /\ Len(written) = 1 + Len(NAMESPACE_META)
    /\ \E wiki \in {"none", "missing", "exists"} :
         phase' = IF wiki = "exists" THEN "wiki" ELSE "done"
    /\ UNCHANGED <<types, order, nextFile, parseVars, resolveVars, anc, out, mainVars>>
    /\ UNCHANGED clientVars

\* index_file.write_text(generate_index_page_wiki(model))
WriteWikiIndex ==
    /\ phase = "wiki" /\ wiki_written = <<>>
    /\ wiki_written' = <<_wiki_filename(WIKI_INDEX_NAME)>>
    /\ UNCHANGED <<types, order, phase, nextFile, parseVars, resolveVars, anc, out,
                   query_examples, written>>
    /\ UNCHANGED clientVars

\* One turn of the second `for ns in NAMESPACE_META`, or the return behind it.
WriteWikiPage ==
    /\ phase = "wiki" /\ wiki_written # <<>>
    /\ LET k == Len(wiki_written) IN
       IF k > Len(NAMESPACE_META)
       THEN /\ phase' = "done"
            /\ wiki_written' = wiki_written
       ELSE IF query_examples[k] = "malformed"
       THEN /\ phase' = "raised"
            /\ wiki_written' = wiki_written
       ELSE /\ phase' = phase
            /\ wiki_written' = Append(wiki_written, _wiki_filename(WIKI_PAGE_NAMES[k]))
    /\ UNCHANGED <<types, order, nextFile, parseVars, resolveVars, anc, out,
                   query_examples, written>>
    /\ UNCHANGED clientVars

\* main(), behind the return of _parse_model.
Main ==
    \/ LoadExamples \/ WriteIndex \/ WritePage \/ WikiOption
    \/ WriteWikiIndex \/ WriteWikiPage

----------------------------------------------------------------------------
(* The pipeline *)

A == <<"a">>
B == <<"b">>
X == <<"x">>
R == <<"r">>
M == <<"m">>

\* Source lines the files are made of.
Lines ==
    {SepLine, CommentLine("c", <<>>), CommentLine("Diag", <<"D", "i", "a", "g">>),
     BlankLine, DefineLine, OtherLine,
     AttrLine(X, "string"),
     BarePlaysLine(A, R, M), BareOwnsLine(A, X, FALSE), BareOwnsLine(A, X, TRUE)}
    \cup {TypeLine(n, p, t, FALSE) : n \in {A, B}, p \in {entity, relation, A, B}, t \in {",", ";"}}
    \cup {InlineTypeLine(A, entity, TRUE)}
    \cup {AbstractLine(";"), OwnsLine(X, FALSE, ","), PlaysLine(R, M, ";"), RelatesLine(M, ";")}

Init ==
    /\ types = <<>> /\ order = <<>>
    /\ phase = "idle"
    /\ nextFile = 1
    /\ source_name = ""
    /\ current_section = <<>>
    /\ comment_block = <<>>
    /\ look = <<>> /\ eof = FALSE /\ nread = 0
    /\ typedef = NoName
    /\ rIdx = 0 /\ rWalk = FALSE /\ rName = NoName /\ rCurrent = NoName
    /\ rChain = <<>>
    /\ anc = AncStart(NoName) /\ out = [fn |-> "none"]
    /\ MainInit
    /\ ClientInit

Parse(L) ==
    \/ ReadLine(L) \/ ReadEof
    \/ SectionHeaderBlock \/ SeparatorLine \/ CommentStep \/ BlankOrDefine
    \/ AttributeDef \/ BarePlays \/ BareOwns \/ TypeStart \/ Unrecognized
    \/ BodyAbstract \/ BodyOwns \/ BodyPlays \/ BodyRelates \/ BodySkip
    \/ EndOfFile \/ ResolveFor \/ ResolveWhile
    \/ StartFile \/ Finish \/ Main

Next == Parse(Lines)

Spec == Init /\ [][Next]_vars

----------------------------------------------------------------------------
(* Calls of the resolver queries on a model that is given.                  *)

C == <<"c">>
Y == <<"y">>
N == <<"n">>

\* get_ancestors(name) is called.
CallGetAncestors ==
    /\ phase = "built"
    /\ \E name \in {A, B, C} : anc' = AncStart(name)
    /\ phase' = "get_ancestors"
    /\ out' = [fn |-> "none"]
    /\ UNCHANGED <<types, order, nextFile, parseVars, resolveVars>>
    /\ UNCHANGED mainVars
    /\ UNCHANGED clientVars

\* The step of get_ancestors without the test of `seen`.
AncStep_NoSeen ==
    /\ phase = "get_ancestors"
    /\ IF anc.current \in DOMAIN types /\ types[anc.current].parent # NoName
       THEN /\ anc' = [anc EXCEPT !.ancestors = Append(@, types[anc.current].parent),
                                  !.current = types[anc.current].parent]
            /\ UNCHANGED <<phase, out>>
       ELSE /\ out' = [fn |-> "get_ancestors", name |-> anc.name, val |-> anc.ancestors]
            /\ phase' = "built"
            /\ anc' = anc
    /\ UNCHANGED <<types, order, nextFile, parseVars, resolveVars>>
    /\ UNCHANGED mainVars
    /\ UNCHANGED clientVars

\* One test of the while condition of get_ancestors: the loop body, or the return.
AncStep ==
    /\ phase = "get_ancestors"
    /\ LET st == AncIter(types, anc) IN
       IF st.done
       THEN /\ out' = [fn |-> "get_ancestors", name |-> anc.name, val |-> st.ancestors]
            /\ phase' = "built"
            /\ anc' = anc
       ELSE /\ anc' = st
            /\ UNCHANGED <<phase, out>>
    /\ UNCHANGED <<types, order, nextFile, parseVars, resolveVars>>
    /\ UNCHANGED mainVars
    /\ UNCHANGED clientVars

\* get_inherited_owns as it would be if `result` were the owns list of the type
\* itself and not a new list.
CallGetInheritedOwns_Aliased ==
    /\ phase = "built"
    /\ \E name \in DOMAIN types :
         LET inherited == GetInheritedOwns(types, name) IN
         /\ types' = [types EXCEPT ![name].owns =
                         @ \o [k \in 1..Len(inherited) |-> inherited[k][1]]]
         /\ out' = [fn |-> "get_inherited_owns", name |-> name, val |-> inherited]
    /\ UNCHANGED <<order, phase, nextFile, parseVars, resolveVars, anc>>
    /\ UNCHANGED mainVars
    /\ UNCHANGED clientVars

\* get_inherited_owns(name) is called, for a name of the model.
CallGetInheritedOwns ==
    /\ phase = "built"
    /\ \E name \in DOMAIN types :
         out' = [fn |-> "get_inherited_owns", name |-> name,
                 val |-> GetInheritedOwns(types, name)]
    /\ UNCHANGED <<types, order, phase, nextFile, parseVars, resolveVars, anc>>
    /\ UNCHANGED mainVars
    /\ UNCHANGED clientVars

\* get_inherited_plays(name) is called, for a name of the model.
CallGetInheritedPlays ==
    /\ phase = "built"
    /\ \E name \in DOMAIN types :
         out' = [fn |-> "get_inherited_plays", name |-> name,
                 val |-> GetInheritedPlays(types, name)]
    /\ UNCHANGED <<types, order, phase, nextFile, parseVars, resolveVars, anc>>
    /\ UNCHANGED mainVars
    /\ UNCHANGED clientVars

\* The state of a run whose model is T, with keys inserted in the order ord.
Built(T, ord) ==
    /\ types = T /\ order = ord
    /\ phase = "built"
    /\ nextFile = Len(FileNames) + 1
    /\ source_name = ""
    /\ current_section = <<>>
    /\ comment_block = <<>>
    /\ look = <<>> /\ eof = TRUE /\ nread = 0
    /\ typedef = NoName
    /\ rIdx = 0 /\ rWalk = FALSE /\ rName = NoName /\ rCurrent = NoName
    /\ rChain = <<>>
    /\ anc = AncStart(NoName) /\ out = [fn |-> "none"]
    /\ MainInit
    /\ ClientInit

\* The members of dom in the order of ord.
RECURSIVE Pick(_, _)
Pick(ord, dom) ==
    IF ord = <<>> THEN <<>>
    ELSE IF Head(ord) \in dom THEN <<Head(ord)>> \o Pick(Tail(ord), dom)
    ELSE Pick(Tail(ord), dom)

\* Models for the resolver queries: one to three entity types a, b, c; the parent
\* of each is none, the root name entity (no key of the model) or any of a, b, c,
\* itself included, so every shape of parent chain and cycle occurs; each owns
\* and plays nothing, one thing, or two things, from the same attributes and
\* roles as the others.
ClauseChoices ==
    { [owns |-> <<>>, plays |-> <<>>],
      [owns |-> <<OwnsClause(X, TRUE, "core")>>,
       plays |-> <<PlaysClause(R, M, "core")>>],
      [owns |-> <<OwnsClause(Y, FALSE, "core"), OwnsClause(X, FALSE, "core")>>,
       plays |-> <<PlaysClause(R, N, "core"), PlaysClause(R, M, "core")>>] }

InitInherit ==
    \E dom \in (SUBSET {A, B, C}) \ {{}} :
    \E par \in [dom -> {NoName, entity, A, B, C}], cl \in [dom -> ClauseChoices] :
        Built([n \in dom |->
                 [TypeDef(n, "entity", par[n], "", "core", <<>>, <<>>)
                    EXCEPT !.owns = cl[n].owns, !.plays = cl[n].plays]],
              Pick(<<A, B, C>>, dom))

NextInherit ==
    CallGetAncestors \/ AncStep \/ CallGetInheritedOwns \/ CallGetInheritedPlays

SpecInherit == InitInherit /\ [][NextInherit]_vars /\ WF_vars(NextInherit)

----------------------------------------------------------------------------
(* Mermaid generators.  A diagram is the sequence of its lines; a line is a    *)
(* record of the texts the f-string puts between its fixed parts.             *)

\* The characters of names, in the order of their code points, which is the
\* order Python compares strings by.
CodePoints ==
    <<"-",
      "A", "B", "C", "D", "E", "F", "G", "H", "I", "J", "K", "L", "M",
      "N", "O", "P", "Q", "R", "S", "T", "U", "V", "W", "X", "Y", "Z",
      "_",
      "a", "b", "c", "d", "e", "f", "g", "h", "i", "j", "k", "l", "m",
      "n", "o", "p", "q", "r", "s", "t", "u", "v", "w", "x", "y", "z">>

Ord(c) == CHOOSE i \in 1..Len(CodePoints) : CodePoints[i] = c

\* a < b on Python strings.
RECURSIVE StrLess(_, _)
StrLess(a, b) ==
    IF b = <<>> THEN FALSE
    ELSE IF a = <<>> THEN TRUE
    ELSE IF Head(a) = Head(b) THEN StrLess(Tail(a), Tail(b))
    ELSE Ord(Head(a)) < Ord(Head(b))

\* kind_order.get(t.kind, 9)
kind_order(kind) ==
    CASE kind = "attribute" -> 0
      [] kind = "entity" -> 1
      [] kind = "relation" -> 2
      [] OTHER -> 9

\* The sort key of t is below the sort key of u.
KeyLess(t, u) ==
    \/ kind_order(t.kind) < kind_order(u.kind)
    \/ kind_order(t.kind) = kind_order(u.kind) /\ StrLess(t.name, u.name)

\* sorted(): t goes behind every entry whose key is not above its own.
RECURSIVE SortedInsert(_, _)
SortedInsert(t, sorted) ==
    IF sorted = <<>> THEN <<t>>
    ELSE IF KeyLess(t, Head(sorted)) THEN <<t>> \o sorted
    ELSE <<Head(sorted)>> \o SortedInsert(t, Tail(sorted))

RECURSIVE Sorted(_)
Sorted(ts) ==
    IF ts = <<>> THEN <<>>
    ELSE SortedInsert(ts[Len(ts)], Sorted(SubSeq(ts, 1, Len(ts) - 1)))

\* model.types.values(): the TypeDefs in the order their keys were inserted.
Values(T, ord) == [i \in 1..Len(ord) |-> T[ord[i]]]

types_in_namespace_Unsorted(T, ord, ns) ==
    LET InNs(t) == t.defined_in = ns IN
    SelectSeq(Values(T, ord), InNs)

\* types_in_namespace(model, ns)
types_in_namespace(T, ord, ns) ==
    LET InNs(t) == t.defined_in = ns IN
    Sorted(SelectSeq(Values(T, ord), InNs))

_MERMAID_RESERVED ==
    { <<"n", "o", "t", "e">>, <<"c", "l", "a", "s", "s">>, <<"e", "n", "d">>,
      <<"s", "t", "y", "l", "e">>, <<"c", "l", "i", "c", "k">>,
      <<"c", "a", "l", "l", "b", "a", "c", "k">>, <<"l", "i", "n", "k">>,
      <<"d", "i", "r", "e", "c", "t", "i", "o", "n">>,
      <<"s", "u", "b", "g", "r", "a", "p", "h">>,
      <<"s", "e", "c", "t", "i", "o", "n">> }

\* _mermaid_safe(name)
_mermaid_safe(name) ==
    LET safe == [i \in 1..Len(name) |-> IF name[i] = "-" THEN "_" ELSE name[i]] IN
    IF safe \in _MERMAID_RESERVED THEN safe \o <<"_", "t">> ELSE safe

\* The line `    {lp_safe} }|--o{ {rp_safe} : {label}` of an ER diagram.
EdgeLine(lp_safe, rp_safe, label) ==
    [cls |-> "edge", left |-> lp_safe, right |-> rp_safe, label |-> label]

\* [x for each element of seq]: the sequence of n copies of x.
Copies(x, n) == [i \in 1..n |-> x]

\* PlayersOf as it would be if only inherited roles made a player.
PlayersOf_InheritedOnly(T, t, ns, rel_name, role_name, players) ==
    IF t.kind # "entity" THEN players
    ELSE LET MatchInh(pc) == pc[1].relation = rel_name /\ pc[1].role = role_name
         IN  IF /\ ns # "core"
                /\ t.defined_in = ns
                /\ SelectSeq(GetInheritedPlays(T, t.name), MatchInh) # <<>>
                /\ t.name \notin Range(players)
             THEN Append(players, t.name)
             ELSE players

\* The body of `for t in model.types.values()` in generate_er_diagram, for one
\* type t, one relation and one role: players after the body.
PlayersOf(T, t, ns, rel_name, role_name, players) ==
    IF t.kind # "entity" THEN players
    ELSE LET Match(p) == p.relation = rel_name /\ p.role = role_name
             direct == players \o Copies(t.name, Len(SelectSeq(t.plays, Match)))
             MatchInh(pc) == Match(pc[1])
         IN  IF /\ ns # "core"
                /\ t.defined_in = ns
                /\ SelectSeq(GetInheritedPlays(T, t.name), MatchInh) # <<>>
                /\ t.name \notin Range(direct)
             THEN Append(direct, t.name)
             ELSE direct

RECURSIVE Players(_, _, _, _, _, _, _)
Players(T, ord, k, ns, rel_name, role_name, players) ==
    IF k > Len(ord) THEN players
    ELSE Players(T, ord, k + 1, ns, rel_name, role_name,
                 PlayersOf(T, T[ord[k]], ns, rel_name, role_name, players))

\* list(role_players.keys()): the roles of rel.relates, each at its first place.
RECURSIVE Roles(_, _)
Roles(relates, k) ==
    IF k > Len(relates) THEN <<>>
    ELSE IF \E j \in 1..(k - 1) : relates[j].role = relates[k].role
         THEN Roles(relates, k + 1)
         ELSE <<relates[k].role>> \o Roles(relates, k + 1)

\* The (lp, rp) the four nested loops of generate_er_diagram visit, in order.
RECURSIVE PairsRp(_, _, _)
PairsRp(lp, right_players, k) ==
    IF k > Len(right_players) THEN <<>>
    ELSE <<<<lp, right_players[k]>>>> \o PairsRp(lp, right_players, k + 1)

RECURSIVE PairsLp(_, _, _)
PairsLp(left_players, right_players, k) ==
    IF k > Len(left_players) THEN <<>>
    ELSE PairsRp(left_players[k], right_players, 1)
             \o PairsLp(left_players, right_players, k + 1)

RECURSIVE PairsRj(_, _, _)
PairsRj(role_players, ri, rj) ==
    IF rj > Len(role_players) THEN <<>>
    ELSE PairsLp(role_players[ri], role_players[rj], 1)
             \o PairsRj(role_players, ri, rj + 1)

RECURSIVE PairsRi(_, _)
PairsRi(role_players, ri) ==
    IF ri > Len(role_players) THEN <<>>
    ELSE PairsRj(role_players, ri, ri + 1) \o PairsRi(role_players, ri + 1)

\* The innermost loop body over the visited pairs: acc = [seen_edges, lines].
RECURSIVE Edges(_, _, _, _)
Edges(pairs, k, rel_name, acc) ==
    IF k > Len(pairs) THEN acc
    ELSE LET lp == pairs[k][1]
             rp == pairs[k][2]
             edge_key == <<lp, rp, rel_name>>
             rev_key == <<rp, lp, rel_name>>
         IN  IF edge_key \in acc.seen_edges \/ rev_key \in acc.seen_edges
             THEN Edges(pairs, k + 1, rel_name, acc)
             ELSE Edges(pairs, k + 1, rel_name,
                        [seen_edges |-> acc.seen_edges \cup {edge_key},
                         lines |-> Append(acc.lines,
                                          EdgeLine(_mermaid_safe(lp), _mermaid_safe(rp),
                                                   _mermaid_safe(rel_name)))])

\* `for rel in relations`.
RECURSIVE ErRelations(_, _, _, _, _, _)
ErRelations(T, ord, ns, relations, k, acc) ==
    IF k > Len(relations) THEN acc.lines
    ELSE LET rel == relations[k]
             roles == Roles(rel.relates, 1)
             role_players ==
                 [i \in 1..Len(roles) |-> Players(T, ord, 1, ns, rel.name, roles[i], <<>>)]
         IN  ErRelations(T, ord, ns, relations, k + 1,
                         IF Len(roles) >= 2
                         THEN Edges(PairsRi(role_players, 1), 1, rel.name, acc)
                         ELSE acc)

\* generate_er_diagram(model, ns, section_filter); section_filter <<>> is None.
generate_er_diagram(T, ord, ns, section_filter) ==
    LET IsRelation(t) == t.kind = "relation"
        InSection(r) == Contains(Lower(r.section), Lower(section_filter))
        rels == SelectSeq(types_in_namespace(T, ord, ns), IsRelation)
        relations == IF section_filter # <<>> THEN SelectSeq(rels, InSection) ELSE rels
    IN  ErRelations(T, ord, ns, relations, 1,
                    [seen_edges |-> {}, lines |-> <<[cls |-> "erDiagram"]>>])

ClassOf_NoNamespaceTest(T, ns, td, acc) ==
    LET safe == _mermaid_safe(td.name)
        shown == SubSeq(td.owns, 1, IF Len(td.owns) < 5 THEN Len(td.owns) ELSE 5)
        own_attrs == [i \in 1..Len(shown) |-> shown[i].attribute]
        decl == IF own_attrs # <<>>
                THEN <<[cls |-> "class_open", id |-> safe]>>
                     \o [i \in 1..Len(own_attrs) |-> [cls |-> "attr", attr |-> own_attrs[i]]]
                     \o <<[cls |-> "class_close"]>>
                ELSE <<[cls |-> "class", id |-> safe]>>
        abstract == IF td.is_abstract
                    THEN <<[cls |-> "stereotype", text |-> "abstract", id |-> safe]>>
                    ELSE <<>>
        arrow == td.parent # NoName /\ td.parent \notin RootNames
    IN  [lines |-> acc.lines \o decl \o abstract
                   \o (IF arrow
                       THEN <<[cls |-> "inherit", parent |-> _mermaid_safe(td.parent),
                               child |-> safe]>>
                       ELSE <<>>),
         external_parents |->
             IF /\ arrow
                /\ td.parent \in DOMAIN T
             THEN acc.external_parents \cup {td.parent}
             ELSE acc.external_parents]

\* The body of `for typedef in entity_types` in generate_class_diagram:
\* acc = [lines, external_parents].
ClassOf(T, ns, td, acc) ==
    LET safe == _mermaid_safe(td.name)
        shown == SubSeq(td.owns, 1, IF Len(td.owns) < 5 THEN Len(td.owns) ELSE 5)
        own_attrs == [i \in 1..Len(shown) |-> shown[i].attribute]
        decl == IF own_attrs # <<>>
                THEN <<[cls |-> "class_open", id |-> safe]>>
                     \o [i \in 1..Len(own_attrs) |-> [cls |-> "attr", attr |-> own_attrs[i]]]
                     \o <<[cls |-> "class_close"]>>
                ELSE <<[cls |-> "class", id |-> safe]>>
        abstract == IF td.is_abstract
                    THEN <<[cls |-> "stereotype", text |-> "abstract", id |-> safe]>>
                    ELSE <<>>
        arrow == td.parent # NoName /\ td.parent \notin RootNames
    IN  [lines |-> acc.lines \o decl \o abstract
                   \o (IF arrow
                       THEN <<[cls |-> "inherit", parent |-> _mermaid_safe(td.parent),
                               child |-> safe]>>
                       ELSE <<>>),
         external_parents |->
             IF /\ arrow
                /\ td.parent \in DOMAIN T
                /\ T[td.parent].defined_in # ns
             THEN acc.external_parents \cup {td.parent}
             ELSE acc.external_parents]

RECURSIVE ClassLoop(_, _, _, _, _)
ClassLoop(T, ns, entity_types, k, acc) ==
    IF k > Len(entity_types) THEN acc
    ELSE ClassLoop(T, ns, entity_types, k + 1, ClassOf(T, ns, entity_types[k], acc))

\* generate_class_diagram up to the loop over external_parents.
ClassDeclarations(T, ord, ns) ==
    LET Shown(t) == t.kind \in {"entity", "relation"} IN
    ClassLoop(T, ns, SelectSeq(types_in_namespace(T, ord, ns), Shown), 1,
              [lines |-> <<[cls |-> "classDiagram"], [cls |-> "direction", dir |-> "LR"]>>,
               external_parents |-> {}])

\* The orders a `for` over the set s can take: a set of strings is iterated in
\* the order of the hashes of its members, and the hash of a string is salted
\* anew for every run of the interpreter.
IterationOrders(s) == {o \in [1..Cardinality(s) -> s] : NoDup(o)}

\* `for ext in external_parents`, taking the members in the order exts.
RECURSIVE ExternalLines(_, _, _)
ExternalLines(T, exts, k) ==
    IF k > Len(exts) THEN <<>>
    ELSE <<[cls |-> "class", id |-> _mermaid_safe(exts[k])],
           [cls |-> "stereotype", text |-> T[exts[k]].defined_in,
            id |-> _mermaid_safe(exts[k])]>>
         \o ExternalLines(T, exts, k + 1)

\* The documents generate_class_diagram(model, ns) can return.
generate_class_diagram(T, ord, ns) ==
    LET body == ClassDeclarations(T, ord, ns) IN
    {body.lines \o ExternalLines(T, exts, 1) : exts \in IterationOrders(body.external_parents)}

----------------------------------------------------------------------------
(* Calls of _mermaid_safe on type names.  A type name is what `[\w-]+` of    *)
(* the line patterns matches: letters, digits, `_` and `-`.                 *)

MaxNameLen == 3

SafeChars == {"a", "b", "-", "_"}

\* The names up to MaxNameLen characters, the reserved words, and the reserved
\* words with the suffix the function adds.
SafeNames ==
    UNION {[1..n -> SafeChars] : n \in 1..MaxNameLen}
    \cup _MERMAID_RESERVED
    \cup {w \o <<"_", "t">> : w \in _MERMAID_RESERVED}

\* _mermaid_safe(name) is called.
CallMermaidSafe ==
    /\ \E name \in SafeNames :
         out' = [fn |-> "_mermaid_safe", name |-> name, val |-> _mermaid_safe(name)]
    /\ UNCHANGED <<types, order, phase, nextFile, parseVars, resolveVars, anc>>
    /\ UNCHANGED mainVars
    /\ UNCHANGED clientVars

NextSafe == CallMermaidSafe

SpecSafe == Init /\ [][NextSafe]_vars

----------------------------------------------------------------------------
(* Markdown generators.  A page is the sequence of its lines; a line is a     *)
(* record of the texts the f-string puts between its fixed parts.           *)

\* kind.capitalize(), for the kinds there are.
Capitalize(kind) ==
    CASE kind = "attribute" -> "Attribute"
      [] kind = "entity" -> "Entity"
      [] kind = "relation" -> "Relation"
      [] OTHER -> kind

\* The rows of the owns table: the direct entries with the namespace of the
\* type, then the inherited ones with the ancestor they come from.
OwnsRows(T, td) ==
    LET inherited == GetInheritedOwns(T, td.name) IN
    IF td.owns = <<>> /\ inherited = <<>> THEN <<>>
    ELSE <<[cls |-> "owns_head"]>>
         \o [k \in 1..Len(td.owns) |->
               [cls |-> "owns_row", attribute |-> td.owns[k].attribute,
                key |-> IF td.owns[k].is_key THEN "@key" ELSE "",
                src |-> td.defined_in, inherited |-> FALSE]]
         \o [k \in 1..Len(inherited) |->
               [cls |-> "owns_row", attribute |-> inherited[k][1].attribute,
                key |-> IF inherited[k][1].is_key THEN "@key" ELSE "",
                src |-> inherited[k][2], inherited |-> TRUE]]
         \o <<[cls |-> "blank"]>>

\* The rows of the plays table.
PlaysRows(T, td) ==
    LET inherited_plays == GetInheritedPlays(T, td.name) IN
    IF td.plays = <<>> /\ inherited_plays = <<>> THEN <<>>
    ELSE <<[cls |-> "plays_head"]>>
         \o [k \in 1..Len(td.plays) |->
               [cls |-> "plays_row", relation |-> td.plays[k].relation,
                role |-> td.plays[k].role, src |-> td.defined_in, inherited |-> FALSE]]
         \o [k \in 1..Len(inherited_plays) |->
               [cls |-> "plays_row", relation |-> inherited_plays[k][1].relation,
                role |-> inherited_plays[k][1].role, src |-> inherited_plays[k][2],
                inherited |-> TRUE]]
         \o <<[cls |-> "blank"]>>

\* The rows of the relates table.
RelatesRows(td) ==
    IF td.relates = <<>> THEN <<>>
    ELSE <<[cls |-> "relates_head"]>>
         \o [k \in 1..Len(td.relates) |-> [cls |-> "relates_row", role |-> td.relates[k].role]]
         \o <<[cls |-> "blank"]>>

\* generate_type_table(model, typedef)
generate_type_table(T, td) ==
    <<[cls |-> "heading", name |-> td.name], [cls |-> "blank"]>>
    \o (IF td.comment # <<>>
        THEN <<[cls |-> "quote", text |-> td.comment], [cls |-> "blank"]>>
        ELSE <<>>)
    \o <<[cls |-> "kind", label |-> Capitalize(td.kind)],
         [cls |-> "parent", parent |-> td.parent,
          code |-> td.parent # NoName /\ td.parent \notin RootNames]>>
    \o (IF td.is_abstract THEN <<[cls |-> "abstract"]>> ELSE <<>>)
    \o (IF td.value_type # "" THEN <<[cls |-> "value_type", value_type |-> td.value_type]>>
        ELSE <<>>)
    \o <<[cls |-> "defined_in", ns |-> td.defined_in], [cls |-> "blank"]>>
    \o OwnsRows(T, td) \o PlaysRows(T, td) \o RelatesRows(td)

----------------------------------------------------------------------------
(* Calls of generate_er_diagram on a model that is given.                   *)

O == <<"o">>
P == <<"p">>
AB == <<"a", "-", "b">>
A_B == <<"a", "_", "b">>
Diag == <<"D", "i", "a", "g">>

GenerateErDiagram ==
    /\ phase = "built"
    /\ \E ns \in {"core", "apm"}, section_filter \in {<<>>, Diag} :
         out' = [fn |-> "generate_er_diagram", ns |-> ns,
                 section_filter |-> section_filter,
                 val |-> generate_er_diagram(types, order, ns, section_filter)]
    /\ UNCHANGED <<types, order, phase, nextFile, parseVars, resolveVars, anc>>
    /\ UNCHANGED mainVars
    /\ UNCHANGED clientVars

\* Models for the ER diagram: a relation r with two roles in either order, three
\* roles, or one role named twice, in either file, under a section title or
\* none, and three entities p, a-b and a_b, each in either file; p plays nothing,
\* one role, two roles, or one role twice; a-b and a_b play nothing or a role and
\* are subtypes of entity or of p; p is declared before a-b or behind it.
InitEr ==
    \E relates \in {<<RelatesClause(M, "core"), RelatesClause(N, "core")>>,
                    <<RelatesClause(N, "core"), RelatesClause(M, "core")>>,
                    <<RelatesClause(M, "core"), RelatesClause(N, "core"),
                      RelatesClause(O, "core")>>,
                    <<RelatesClause(M, "core"), RelatesClause(M, "core")>>},
       section \in {<<>>, Diag},
       nsOf \in [{R, P, AB, A_B} -> {"core", "apm"}],
       par \in [{AB, A_B} -> {entity, P}],
       pPlays \in {<<>>,
                   <<PlaysClause(R, M, "core")>>,
                   <<PlaysClause(R, M, "core"), PlaysClause(R, N, "core")>>,
                   <<PlaysClause(R, M, "core"), PlaysClause(R, M, "core")>>},
       abPlays \in {<<>>, <<PlaysClause(R, N, "core")>>, <<PlaysClause(R, O, "core")>>},
       a_bPlays \in {<<>>, <<PlaysClause(R, N, "core")>>},
       ord \in {<<R, P, AB, A_B>>, <<R, AB, P, A_B>>} :
        Built((R :> [TypeDef(R, "relation", relation, "", nsOf[R], <<>>, section)
                        EXCEPT !.relates = relates])
              @@ (P :> [TypeDef(P, "entity", entity, "", nsOf[P], <<>>, <<>>)
                        EXCEPT !.plays = pPlays])
              @@ (AB :> [TypeDef(AB, "entity", par[AB], "", nsOf[AB], <<>>, <<>>)
                        EXCEPT !.plays = abPlays])
              @@ (A_B :> [TypeDef(A_B, "entity", par[A_B], "", nsOf[A_B], <<>>, <<>>)
                        EXCEPT !.plays = a_bPlays]),
              ord)

NextEr == GenerateErDiagram

SpecEr == InitEr /\ [][NextEr]_vars

----------------------------------------------------------------------------
(* Runs of generate_class_diagram on a model that is given.                 *)

Q == <<"q">>

\* One run of the generator for the page of ns.
GenerateClassDiagram ==
    /\ phase = "built"
    /\ \E ns \in {"core", "apm"} :
       \E doc \in generate_class_diagram(types, order, ns) :
         out' = [fn |-> "generate_class_diagram", ns |-> ns, val |-> doc]
    /\ UNCHANGED <<types, order, phase, nextFile, parseVars, resolveVars, anc>>
    /\ UNCHANGED mainVars
    /\ UNCHANGED clientVars

\* Models for the class diagram: entities p and q, q a subtype of entity or of
\* p; entities a and b, each a subtype of entity, p or q; an attribute x; each
\* type in either file; a abstract or not, owning x or nothing.
InitClass ==
    \E par \in [{A, B} -> {entity, P, Q}],
       qPar \in {entity, P},
       nsOf \in [{P, Q, A, B, X} -> {"core", "apm"}],
       abstract \in BOOLEAN,
       aOwns \in {<<>>, <<OwnsClause(X, FALSE, "core")>>} :
        Built((P :> TypeDef(P, "entity", entity, "", nsOf[P], <<>>, <<>>))
              @@ (Q :> TypeDef(Q, "entity", qPar, "", nsOf[Q], <<>>, <<>>))
              @@ (X :> TypeDef(X, "attribute", attribute, "string", nsOf[X], <<>>, <<>>))
              @@ (A :> [TypeDef(A, "entity", par[A], "", nsOf[A], <<>>, <<>>)
                        EXCEPT !.is_abstract = abstract, !.owns = aOwns])
              @@ (B :> TypeDef(B, "entity", par[B], "", nsOf[B], <<>>, <<>>)),
              <<P, Q, X, A, B>>)

NextClass == GenerateClassDiagram

SpecClass == InitClass /\ [][NextClass]_vars

----------------------------------------------------------------------------
(* Parsing one root source whose lines are given: an attribute, an entity    *)
(* that owns it as key, and a subtype of that entity.                        *)

attr_id == <<"i", "d">>
attr_name == <<"n", "a", "m", "e">>
E == <<"E">>
F == <<"F">>

\* `id sub attribute, value string;`
IdDecl == <<AttrLine(attr_id, "string")>>
\* `E sub entity,` / `    owns id @key;`
EDecl == <<TypeLine(E, entity, ",", FALSE), OwnsLine(attr_id, TRUE, ";")>>
\* `F sub E,` / `    owns name;`
FDecl == <<TypeLine(F, E, ",", FALSE), OwnsLine(attr_name, FALSE, ";")>>

\* What may stand between two declarations: nothing, a blank line, a comment.
Gaps == {<<>>, <<BlankLine>>, <<CommentLine("c", <<>>)>>}

\* The sources: `define`, then the three declarations in any order.
ScenarioFiles ==
    {<<DefineLine>> \o d[1] \o g1 \o d[2] \o g2 \o d[3] :
        d \in {o \in [1..3 -> {IdDecl, EDecl, FDecl}] : NoDup(o)},
        g1 \in Gaps, g2 \in Gaps}

\* parse_tql_file has been called for the root file and has read its lines.
InitScenario ==
    /\ types = <<>> /\ order = <<>>
    /\ phase = "top"
    /\ nextFile = 2
    /\ source_name = "core"
    /\ current_section = <<>>
    /\ comment_block = <<>>
    /\ look \in ScenarioFiles /\ eof = TRUE /\ nread = Len(look)
    /\ typedef = NoName
    /\ rIdx = 0 /\ rWalk = FALSE /\ rName = NoName /\ rCurrent = NoName
    /\ rChain = <<>>
    /\ anc = AncStart(NoName) /\ out = [fn |-> "none"]
    /\ MainInit
    /\ ClientInit

NextScenario ==
    \/ BlankOrDefine \/ CommentStep \/ AttributeDef \/ TypeStart \/ BodyOwns
    \/ EndOfFile \/ ResolveFor \/ ResolveWhile \/ Finish
    \/ CallGetInheritedOwns

SpecScenario == InitScenario /\ [][NextScenario]_vars

----------------------------------------------------------------------------
(* Any calls of the readers of the model, in any order, on a model that is  *)
(* given.                                                                   *)

\* types_in_namespace(model, ns) is called; the names of what it returns.
CallTypesInNamespace ==
    /\ phase = "built"
    /\ \E ns \in {"core", "apm"} :
         LET ns_types == types_in_namespace(types, order, ns) IN
         out' = [fn |-> "types_in_namespace", ns |-> ns,
                 val |-> [k \in 1..Len(ns_types) |-> ns_types[k].name]]
    /\ UNCHANGED <<types, order, phase, nextFile, parseVars, resolveVars, anc>>
    /\ UNCHANGED mainVars
    /\ UNCHANGED clientVars

\* generate_type_table(model, typedef) is called for a type of the model.
GenerateTypeTable ==
    /\ phase = "built"
    /\ \E name \in DOMAIN types :
         out' = [fn |-> "generate_type_table", name |-> name,
                 val |-> generate_type_table(types, types[name])]
    /\ UNCHANGED <<types, order, phase, nextFile, parseVars, resolveVars, anc>>
    /\ UNCHANGED mainVars
    /\ UNCHANGED clientVars

\* Models for the readers: an attribute x; a relation r with the roles m and n;
\* an entity p that owns x and plays r:m; entities a and b, each a subtype of
\* entity, of p or of the other, each in either file; a plays r:n or nothing, b
\* owns x or nothing.
InitQueries ==
    \E aPar \in {entity, P, B}, bPar \in {entity, P, A},
       nsOf \in [{A, B} -> {"core", "apm"}],
       aPlays \in {<<>>, <<PlaysClause(R, N, "apm")>>},
       bOwns \in {<<>>, <<OwnsClause(X, FALSE, "apm")>>} :
        Built((X :> TypeDef(X, "attribute", attribute, "string", "core", <<>>, <<>>))
              @@ (R :> [TypeDef(R, "relation", relation, "", "core", <<>>, <<>>)
                        EXCEPT !.relates = <<RelatesClause(M, "core"),
                                             RelatesClause(N, "core")>>])
              @@ (P :> [TypeDef(P, "entity", entity, "", "core", <<"c">>, <<>>)
                        EXCEPT !.owns = <<OwnsClause(X, TRUE, "core")>>,
                               !.plays = <<PlaysClause(R, M, "core")>>])
              @@ (A :> [TypeDef(A, "entity", aPar, "", nsOf[A], <<>>, <<>>)
                        EXCEPT !.plays = aPlays])
              @@ (B :> [TypeDef(B, "entity", bPar, "", nsOf[B], <<>>, <<>>)
                        EXCEPT !.owns = bOwns]),
              <<X, R, P, A, B>>)

NextQueries ==
    \/ CallGetAncestors \/ AncStep \/ CallGetInheritedOwns \/ CallGetInheritedPlays
    \/ CallTypesInNamespace \/ GenerateClassDiagram \/ GenerateErDiagram
    \/ GenerateTypeTable

SpecQueries == InitQueries /\ [][NextQueries]_vars

----------------------------------------------------------------------------
(* TypeDBClient: connect, disconnect and the context manager.               *)

\* disconnect as it would be without `self._driver = None`.
disconnect_KeepsDriver ==
    IF _driver # None
    THEN closed' = closed \cup {_driver} /\ _driver' = _driver
    ELSE UNCHANGED <<_driver, closed>>

\* The body of disconnect(): the driver held, if any, is closed and let go.
disconnect ==
    IF _driver # None
    THEN closed' = closed \cup {_driver} /\ _driver' = None
    ELSE UNCHANGED <<_driver, closed>>

\* connect(): TypeDB.core_driver returns a new driver, which the client holds
\* from now on (a driver held before is neither closed nor kept).
connect ==
    /\ opened < MaxDrivers
    /\ opened' = opened + 1
    /\ _driver' = opened + 1
    /\ closed' = closed

\* connect(): TypeDB.core_driver raises, as it does when no server is reached
\* (tests/test_typedb_client.py, typedb_available); the assignment is not made.
connect_raises == UNCHANGED <<_driver, opened, closed>>

modelVars == <<types, order, phase, nextFile, parseVars, resolveVars, queryVars, mainVars>>

\* client.connect() returns.
Connect ==
    /\ connect
    /\ last' = [fn |-> "connect", raised |-> FALSE]
    /\ UNCHANGED <<scope, modelVars>>

\* client.connect() raises.
ConnectRaises ==
    /\ connect_raises
    /\ last' = [fn |-> "connect", raised |-> TRUE]
    /\ UNCHANGED <<scope, modelVars>>

\* client.disconnect()
Disconnect ==
    /\ disconnect
    /\ last' = [fn |-> "disconnect", raised |-> FALSE]
    /\ UNCHANGED <<opened, scope, modelVars>>

\* `with client:` is reached: __enter__ calls connect; when connect raises, the
\* block is not entered and __exit__ is not called.
Enter ==
    /\ scope = "out"
    /\ \/ /\ connect
          /\ last' = [fn |-> "__enter__", raised |-> FALSE]
          /\ scope' = "in"
       \/ /\ connect_raises
          /\ last' = [fn |-> "__enter__", raised |-> TRUE]
          /\ scope' = "out"
    /\ UNCHANGED modelVars

\* The `with` block is left, by reaching its end or by an exception raised in
\* it: __exit__ calls disconnect and returns False, so the exception goes on.
Exit ==
    /\ scope = "in"
    /\ disconnect
    /\ \E exc \in BOOLEAN : last' = [fn |-> "__exit__", raised |-> exc]
    /\ scope' = "out"
    /\ UNCHANGED <<opened, modelVars>>

NextClient == Connect \/ ConnectRaises \/ Disconnect \/ Enter \/ Exit

SpecClient == Init /\ [][NextClient]_vars

----------------------------------------------------------------------------
(* Claims *)

\* C1: parse_tql_file, with the _resolve_kinds pass at its end, terminates for
\* every sequence of lines, parent cycles included.  Each turn of the while loop
\* of _resolve_kinds puts the type it passes on `chain`, and nothing the loop
\* reads changes while it runs: it terminates exactly when it passes no type
\* twice, that is when chain never holds a name twice.
C1_ResolveTerminates == phase = "resolve" => NoDup(rChain)

\* The names of the attributes of an owns list, of the (relation, role) pairs of
\* a plays list, of the roles of a relates list, in list order.
OwnsKeys(owns) == [k \in 1..Len(owns) |-> owns[k].attribute]
PlaysKeys(plays) == [k \in 1..Len(plays) |-> <<plays[k].relation, plays[k].role>>]
RelatesKeys(relates) == [k \in 1..Len(relates) |-> relates[k].role]

\* C2: after the full build, a type T whose kind was unset at its declaration
\* (it was declared `T sub P` with P none of entity, relation, attribute) and
\* whose parent P is in the model has the kind of P, wherever P is declared.
C2_KindFollowsParent ==
    phase = "built" =>
        \A t \in DOMAIN types :
            LET p == types[t].parent IN
            (p # NoName /\ p \notin RootNames /\ p \in DOMAIN types)
                => types[t].kind = types[p].kind

\* C3: after parsing, no type has two owns entries with the same attribute, two
\* plays entries with the same (relation, role) or two relates entries with the
\* same role.
C3_NoDuplicateClauses ==
    phase \in {"idle", "built"} =>
        \A t \in DOMAIN types :
            /\ NoDup(OwnsKeys(types[t].owns))
            /\ NoDup(PlaysKeys(types[t].plays))
            /\ NoDup(RelatesKeys(types[t].relates))

\* C4: after the build, every name used as a parent (the three root
\* names apart) and every name used as the relation of a plays clause is a key
\* of the model.
C4_ReferencesAreKeys ==
    phase = "built" =>
        \A t \in DOMAIN types :
            /\ (types[t].parent # NoName /\ types[t].parent \notin RootNames)
                   => types[t].parent \in DOMAIN types
            /\ \A k \in 1..Len(types[t].plays) :
                   types[t].plays[k].relation \in DOMAIN types

\* C9: for a type T of a model the parser built, no attribute name occurs twice
\* in T's direct owns followed by get_inherited_owns(T).
C9_AttributeRowsDistinct ==
    phase = "built" =>
        \A t \in DOMAIN types :
            LET inherited == GetInheritedOwns(types, t) IN
            NoDup(OwnsKeys(types[t].owns)
                  \o [k \in 1..Len(inherited) |-> inherited[k][1].attribute])

\* C7: get_inherited_owns(T) returns no attribute that is the attribute of one
\* of T's direct owns entries, in any model, parent cycles included.
C7_InheritedOwnsNotDirect ==
    out.fn = "get_inherited_owns" =>
        \A k \in 1..Len(out.val) :
            out.val[k][1].attribute \notin Range(OwnsKeys(types[out.name].owns))

\* get_inherited_owns(T) returned something, for a T on a parent cycle that owns
\* an attribute an ancestor owns too.
C7_Witness ==
    /\ out.fn = "get_inherited_owns"
    /\ out.val # <<>>
    /\ out.name \in Range(GetAncestors(types, out.name))
    /\ \E t \in Range(GetAncestors(types, out.name)) \cap DOMAIN types :
         /\ t # out.name
         /\ Range(OwnsKeys(types[t].owns)) \cap Range(OwnsKeys(types[out.name].owns)) # {}

\* C8: get_inherited_plays(T) returns no (relation, role) that is the (relation,
\* role) of one of T's direct plays entries, in any model, parent cycles included.
C8_InheritedPlaysNotDirect ==
    out.fn = "get_inherited_plays" =>
        \A k \in 1..Len(out.val) :
            <<out.val[k][1].relation, out.val[k][1].role>>
                \notin Range(PlaysKeys(types[out.name].plays))

\* get_inherited_plays(T) returned something, for a T on a parent cycle that
\* plays a role an ancestor plays too.
C8_Witness ==
    /\ out.fn = "get_inherited_plays"
    /\ out.val # <<>>
    /\ out.name \in Range(GetAncestors(types, out.name))
    /\ \E t \in Range(GetAncestors(types, out.name)) \cap DOMAIN types :
         /\ t # out.name
         /\ Range(PlaysKeys(types[t].plays)) \cap Range(PlaysKeys(types[out.name].plays)) # {}

\* The parent of name in the model, <<>> when name is no key.
ParentOf(name) == IF name \in DOMAIN types THEN types[name].parent ELSE NoName

\* C10: get_ancestors(name) terminates for every model and name, and returns the
\* chain of parents nearest first with no name twice.  While the loop runs,
\* `ancestors` holds parent names of the model, none twice (so the loop takes at
\* most one turn per type); the call returns; and what it returns starts at the
\* parent of name and goes from each entry to that entry's parent.
C10_AncestorsTerminate ==
    /\ [](phase = "get_ancestors" =>
            /\ NoDup(anc.ancestors)
            /\ Len(anc.ancestors) <= Cardinality(DOMAIN types))
    /\ [](out.fn = "get_ancestors" =>
            /\ NoDup(out.val)
            /\ \A k \in 1..Len(out.val) :
                 out.val[k] = ParentOf(IF k = 1 THEN out.name ELSE out.val[k - 1]))
    /\ (phase = "get_ancestors") ~> (phase = "built" /\ out.fn = "get_ancestors")

\* get_ancestors returned for a name on a parent cycle of two types or more.
C10_Witness ==
    /\ out.fn = "get_ancestors"
    /\ Len(out.val) >= 2
    /\ out.name \in Range(out.val)

\* The edge lines of a diagram.
EdgeLines(lines) == SelectSeq(lines, LAMBDA l : l.cls = "edge")

\* C6: the output of generate_er_diagram has no two edge lines that connect the
\* same two node identifiers, in the same or in reversed order, with the same
\* relation label.
C6_NoRepeatedEdge ==
    out.fn = "generate_er_diagram" =>
        LET e == EdgeLines(out.val) IN
        \A i, j \in 1..Len(e) :
            ( /\ e[i].label = e[j].label
              /\ {e[i].left, e[i].right} = {e[j].left, e[j].right} ) => i = j

\* C5: two runs on the same input produce the same document: a run of
\* generate_class_diagram for a namespace that follows a run for the same
\* namespace, on the same model, returns the same lines in the same order.
C5_RunsAgree ==
    [][(/\ out.fn = "generate_class_diagram"
        /\ out'.fn = "generate_class_diagram"
        /\ out'.ns = out.ns
        /\ types' = types /\ order' = order) => out'.val = out.val]_vars

\* C11: for every type T of the model whose parent P is no root kind name and
\* is a key of the model, P is an element of get_ancestors(T).
C11_ParentIsAncestor ==
    (/\ out.fn = "get_ancestors"
     /\ out.name \in DOMAIN types
     /\ types[out.name].parent \notin RootNames
     /\ types[out.name].parent \in DOMAIN types)
    => types[out.name].parent \in Range(out.val)

\* get_ancestors returned for a type that is its own parent, and for which the
\* parent is therefore the name the walk started from.
C11_Witness ==
    /\ out.fn = "get_ancestors"
    /\ out.name \in DOMAIN types
    /\ types[out.name].parent = out.name
    /\ out.val = <<out.name>>

\* C13: when a bare statement `G plays rel:role;` is processed and G is no key
\* of the model, the model gains exactly the key G, whose entry has kind entity,
\* no parent, defined_in equal to the namespace of the file being parsed, and
\* the one plays clause (rel, role); every other entry stays as it was.
C13_BarePlaysPlaceholder ==
    [][(/\ phase = "top" /\ Revealed
        /\ look[1].cls = "bare_plays"
        /\ look[1].name \notin DOMAIN types)
       => LET G == look[1].name IN
          /\ DOMAIN types' = DOMAIN types \cup {G}
          /\ order' = Append(order, G)
          /\ types'[G].name = G
          /\ types'[G].kind = "entity"
          /\ types'[G].parent = NoName
          /\ types'[G].defined_in = source_name
          /\ types'[G].plays = <<PlaysClause(look[1].relation, look[1].role, source_name)>>
          /\ types'[G].owns = <<>> /\ types'[G].relates = <<>>
          /\ \A n \in DOMAIN types : types'[n] = types[n]
      ]_vars

\* The second file is being parsed, a type of the first file is in the model,
\* and behind it a placeholder of the second file with its one plays clause.
C13_Witness ==
    /\ phase = "top" /\ source_name = "apm"
    /\ Len(order) = 2
    /\ types[order[1]].defined_in = "core" /\ types[order[1]].parent = entity
    /\ types[order[2]].defined_in = "apm"
    /\ types[order[2]].parent = NoName /\ types[order[2]].kind = "entity"
    /\ types[order[2]].plays = <<PlaysClause(R, M, "apm")>>

\* C15: a top-level line that no line class matches is skipped: the model and
\* the current section stay as they are, the comment buffer is emptied, and the
\* parser goes on at the next line, at top level.
C15_UnrecognizedSkipped ==
    [][(/\ phase = "top" /\ Revealed
        /\ look[1].cls \in TopUnmatched)
       => /\ types' = types /\ order' = order
          /\ current_section' = current_section
          /\ comment_block' = <<>>
          /\ look' = Rest(1)
          /\ phase' = "top"
      ]_vars

\* A line that nothing matches is next, behind a comment line that is still in
\* the buffer, with a type in the model.
C15_Witness ==
    /\ phase = "top" /\ Revealed
    /\ look[1].cls \in TopUnmatched
    /\ comment_block # <<>>
    /\ types # <<>>

\* C16: a run that finds no input (neither the root schema file nor any file of
\* the extensions directory, as when the schema directory is missing) writes no
\* output document.
C16_MissingInputWritesNothing ==
    nextFile = 1 => written = <<>> /\ wiki_written = <<>>

\* C19: when a start line `N sub P` has been processed, the entry of N has
\* parent P, whether the line created the entry or found it in the model.
C19_StartLineRecordsParent ==
    [][(/\ phase = "top" /\ Revealed
        /\ look[1].cls = "type")
       => types'[look[1].name].parent = look[1].parent
      ]_vars

\* C20: behind a start line that holds a whole statement, closed by `;`, the
\* parser is at top level: it does not enter the loop over the lines of a body.
C20_ClosedStartLineStaysTop ==
    [][(/\ phase = "top" /\ Revealed
        /\ look[1].cls = "type"
        /\ look[1].closed)
       => phase' = "top"
      ]_vars

\* C12: parsing a root source that declares the string attribute id, the entity
\* E owning id as key, and F sub E owning name yields: the direct owns of F is
\* exactly [name, not key]; E and F have kind entity; get_inherited_owns(F) is
\* exactly one entry, id as key, defined in core, inherited from E.
C12_InheritedKeyScenario ==
    /\ phase = "built" =>
         /\ types[F].owns = <<OwnsClause(attr_name, FALSE, "core")>>
         /\ types[E].kind = "entity" /\ types[F].kind = "entity"
    /\ (out.fn = "get_inherited_owns" /\ out.name = F) =>
         out.val = << <<OwnsClause(attr_id, TRUE, "core"), E>> >>

\* get_inherited_owns(F) returned for a source that declares F before E, so that
\* the kind of F came from _resolve_kinds.
C12_Witness ==
    /\ out.fn = "get_inherited_owns" /\ out.name = F
    /\ order[1] = F
    /\ out.val # <<>>

\* The model has the relation r with exactly the roles m and n, p plays r:m and
\* nothing else, a-b plays r:n and nothing else, and a_b plays nothing, neither
\* directly nor by inheritance.
TwoPlayers ==
    /\ {types[R].relates[k].role : k \in 1..Len(types[R].relates)} = {M, N}
    /\ Len(types[R].relates) = 2
    /\ types[P].plays = <<PlaysClause(R, M, "core")>>
    /\ types[AB].plays = <<PlaysClause(R, N, "core")>>
    /\ types[A_B].plays = <<>>
    /\ GetInheritedPlays(types, A_B) = <<>>

\* C14: if relation R of namespace X relates exactly the roles a and b, P plays
\* R:a directly, Q plays R:b directly, and no other type plays a role of R, the
\* relationship diagram of X has exactly one edge between P and Q labelled R,
\* whichever of P and Q is declared first and whichever role R lists first.
C14_OneEdgeBetweenPlayers ==
    (/\ out.fn = "generate_er_diagram"
     /\ out.ns = types[R].defined_in
     /\ out.section_filter = <<>>
     /\ TwoPlayers)
    => LET e == EdgeLines(out.val) IN
       Cardinality({k \in 1..Len(e) :
                        /\ {e[k].left, e[k].right} = {_mermaid_safe(P), _mermaid_safe(AB)}
                        /\ e[k].label = _mermaid_safe(R)}) = 1

\* The diagram was made for a relation that lists the role of a-b first, in a
\* model that declares a-b before p.
C14_Witness ==
    /\ out.fn = "generate_er_diagram"
    /\ out.ns = types[R].defined_in
    /\ out.section_filter = <<>>
    /\ TwoPlayers
    /\ types[R].relates[1].role = N
    /\ order[2] = AB
    /\ Len(out.val) = 2

\* C17: once the model is built, no call of get_ancestors, get_inherited_owns,
\* get_inherited_plays, types_in_namespace, generate_class_diagram,
\* generate_er_diagram or generate_type_table changes the model: no key is added
\* or removed, no field and no clause list of an entry changes, and the order of
\* the keys stays, whatever calls are made and in whatever order.
C17_ReadersLeaveModel ==
    [][(phase \in {"built", "get_ancestors"})
       => /\ types' = types
          /\ order' = order
      ]_vars

\* A type table with an inherited attribute row has been generated.
C17_Witness ==
    /\ out.fn = "generate_type_table"
    /\ \E k \in 1..Len(out.val) : out.val[k].cls = "owns_row" /\ out.val[k].inherited

\* C18 as stated: after any sequence of connect and disconnect calls the client
\* holds a driver exactly when the last call was connect.
C18_DriverIffLastConnect ==
    (_driver # None) <=> (last.fn \in {"connect", "__enter__"})

\* C18: after a connect that returned the client holds a driver; after
\* disconnect, called directly or by leaving a `with` block, normally or through
\* an exception, _driver is None; a connect that raises leaves _driver as it
\* was; and disconnect on a client that holds no driver changes nothing.
C18_DriverAfterCalls ==
    /\ []((last.fn \in {"connect", "__enter__"} /\ ~last.raised) => _driver # None)
    /\ [](last.fn \in {"disconnect", "__exit__"} => _driver = None)
    /\ [][(last'.fn \in {"connect", "__enter__"} /\ last'.raised)
             => _driver' = _driver]_vars
    /\ [][(_driver = None /\ last'.fn \in {"disconnect", "__exit__"})
             => (_driver' = None /\ closed' = closed /\ opened' = opened)]_vars

\* A `with` block in which the client held a driver has been left through an
\* exception, and a connect after that has raised.
C18_Witness ==
    /\ last = [fn |-> "connect", raised |-> TRUE]
    /\ _driver = None
    /\ closed # {}
    /\ scope = "out"

\* C21: a blank line empties the pending comment buffer, and so does a `define`
\* line.
C21_BlankAndDefineReset ==
    [][(/\ phase = "top" /\ Revealed
        /\ look[1].cls \in {"blank", "define"})
       => comment_block' = <<>>
      ]_vars

\* C22: a bare `T owns a;` line, with or without @key, whose subject T is not
\* in the model leaves the model as it is: no type is added and no owns clause
\* is recorded.
C22_BareOwnsUnknownSubject ==
    [][(/\ phase = "top" /\ Revealed
        /\ look[1].cls = "bare_owns"
        /\ look[1].name \notin DOMAIN types)
       => /\ types' = types /\ order' = order
          /\ look' = Rest(1)
      ]_vars

\* A bare owns line with @key is next, its subject is not in the model, and the
\* model holds another type.
C22_Witness ==
    /\ phase = "top" /\ Revealed
    /\ look[1].cls = "bare_owns" /\ look[1].is_key
    /\ look[1].name \notin DOMAIN types
    /\ types # <<>>

\* C23: the defined_in of a type is the namespace of the file whose line first
\* brought its name into the model.  The files are parsed in the order root
\* schema first, then the extension files in sorted order; a type that enters
\* the model gets the namespace of the file being parsed, and no later line of
\* that file or of a later file changes the defined_in of a type already in the
\* model.
C23_DefinedInIsFirstFile ==
    [][/\ \A n \in DOMAIN types :
            /\ n \in DOMAIN types'
            /\ types'[n].defined_in = types[n].defined_in
       /\ \A n \in DOMAIN types' \ DOMAIN types :
            /\ phase \in {"top", "body"}
            /\ source_name' = source_name
            /\ types'[n].defined_in = source_name
       /\ source_name' # source_name
            => \E f \in nextFile..Len(FileNames) :
                 /\ source_name' = FileNames[f]
                 /\ nextFile' = f + 1
                 /\ \A g \in 1..Len(FileNames) :
                      FileNames[g] = source_name => g < f
      ]_vars

\* While the extension file is parsed, a type start line names a type that the
\* root schema file introduced.
C23_Witness ==
    /\ phase = "top" /\ Revealed
    /\ source_name = "apm"
    /\ look[1].cls = "type"
    /\ look[1].name \in DOMAIN types
    /\ types[look[1].name].defined_in = "core"

\* C24: types_in_namespace(model, ns) returns exactly the types of the model
\* whose defined_in is ns, each once, ordered by kind rank (attribute, entity,
\* relation) and, within a kind, by ascending name.
C24_TypesInNamespaceSorted ==
    out.fn = "types_in_namespace" =>
        LET v == out.val
            Rank(n) == CASE types[n].kind = "attribute" -> 0
                         [] types[n].kind = "entity" -> 1
                         [] types[n].kind = "relation" -> 2
        IN /\ Range(v) = {n \in DOMAIN types : types[n].defined_in = out.ns}
           /\ NoDup(v)
           /\ \A i, j \in 1..Len(v) :
                i < j => \/ Rank(v[i]) < Rank(v[j])
                         \/ Rank(v[i]) = Rank(v[j]) /\ StrLess(v[i], v[j])

\* The call returned four types of all three kinds, in an order other than the
\* one they were inserted in, and left out a type of the other namespace.
C24_Witness ==
    /\ out.fn = "types_in_namespace"
    /\ Len(out.val) = 4
    /\ out.val[1] = X /\ out.val[4] = R
    /\ \E n \in DOMAIN types : types[n].defined_in # out.ns

\* C25: in the ER diagram of a namespace ns, an entity type without a direct
\* plays clause for (R, role) is a player of that role only if ns is not the
\* root namespace, the entity is declared in ns, and the ancestor it inherits
\* the role from is declared in the root namespace; in the diagram of the root
\* namespace only direct players are counted.
C25_InheritedPlayerFromRoot ==
    out.fn = "generate_er_diagram" =>
        \A rel \in DOMAIN types :
            (types[rel].kind = "relation" /\ types[rel].defined_in = out.ns) =>
                \A k \in 1..Len(types[rel].relates) :
                    LET role == types[rel].relates[k].role
                        Match(p) == p.relation = rel /\ p.role = role
                        players == Players(types, order, 1, out.ns, rel, role, <<>>)
                    IN \A t \in Range(players) :
                         \/ \E i \in 1..Len(types[t].plays) : Match(types[t].plays[i])
                         \/ /\ out.ns # "core"
                            /\ types[t].defined_in = out.ns
                            /\ \E pc \in Range(GetInheritedPlays(types, t)) :
                                 /\ Match(pc[1])
                                 /\ types[pc[2]].defined_in = "core"

\* C26: in the class diagram of a namespace ns, every type of the model that
\* is declared in another namespace and is the parent of at least one entity or
\* relation type of ns gets exactly one external node, annotated with the
\* namespace that declares it, however many children it has in ns; a parent
\* declared in ns gets no external node.
C26_OneExternalNodePerParent ==
    out.fn = "generate_class_diagram" =>
        \A p \in DOMAIN types :
            LET doc == out.val
                needed == /\ types[p].defined_in # out.ns
                          /\ \E c \in DOMAIN types :
                               /\ types[c].defined_in = out.ns
                               /\ types[c].kind \in {"entity", "relation"}
                               /\ types[c].parent = p
                nodes == {k \in 1..(Len(doc) - 1) :
                            /\ doc[k] = [cls |-> "class", id |-> _mermaid_safe(p)]
                            /\ doc[k + 1] = [cls |-> "stereotype",
                                             text |-> types[p].defined_in,
                                             id |-> _mermaid_safe(p)]}
            IN Cardinality(nodes) = IF needed THEN 1 ELSE 0

\* The diagram of apm was generated for a model in which p, declared in the
\* root file, is the parent of a and of q, both of apm, and q is the parent of
\* b, of apm.
C26_Witness ==
    /\ out.fn = "generate_class_diagram" /\ out.ns = "apm"
    /\ types[P].defined_in = "core"
    /\ \A n \in {A, B, Q} : types[n].defined_in = "apm"
    /\ types[A].parent = P /\ types[Q].parent = P /\ types[B].parent = Q

\* C27: _mermaid_safe gives two different type names two different node
\* identifiers: a call on a name other than the name of the call before it
\* returns another identifier.
C27_SafeIsInjective ==
    [][(/\ out.fn = "_mermaid_safe" /\ out'.fn = "_mermaid_safe"
        /\ out'.name # out.name)
       => out'.val # out.val
      ]_vars

\* C28: every line of a file that matches the type start pattern
\* (`name sub parent` followed by `,` or `;`) results in a model entry for its
\* name: when the parser moves past such a line, whether as a top-level line,
\* as the middle line of a separator block or inside the body loop of another
\* type, the name is a key of the model.
C28_TypeStartLinesEnterModel ==
    [][\A c \in 1..Len(look) :
         (phase \in {"top", "body"} /\ look' = Rest(c)) =>
            \A k \in 1..c :
                look[k].cls \in {"type", "attr"} => look[k].name \in DOMAIN types'
      ]_vars

\* C29: whenever parse_tql_file has returned, every type of the model has a
\* kind in {entity, relation, attribute}; no type keeps an empty kind.
C29_KindsResolvedOnReturn ==
    phase \in {"idle", "built", "docs", "wiki", "raised", "done"} =>
        \A n \in DOMAIN types : types[n].kind \in {"entity", "relation", "attribute"}

\* parse_tql_file has returned for the extension file with a type whose parent
\* is neither a root kind nor a type of the model.
C29_Witness ==
    /\ phase = "idle" /\ source_name = "apm"
    /\ \E n \in DOMAIN types :
         /\ types[n].parent \notin RootNames \cup {NoName}
         /\ types[n].parent \notin DOMAIN types
         /\ types[n].kind = "entity"

\* The type reached from name by k parent links.
RECURSIVE Up(_, _)
Up(name, k) == IF k = 0 THEN name ELSE ParentOf(Up(name, k - 1))

\* The parent links from name lead back to name.
OnParentCycle(name) ==
    \E k \in 1..Cardinality(DOMAIN types) : Up(name, k) = name

\* C30: for every model and every name n, n is not an element of
\* get_ancestors(n), also when the parent links have a cycle through n.
C30_NotOwnAncestor ==
    out.fn = "get_ancestors" => out.name \notin Range(out.val)

\* C30, as the code has it: n is an element of get_ancestors(n) exactly when
\* the parent links from n lead back to n, and n is then the last element.
C30_OwnAncestorOnlyOnCycle ==
    out.fn = "get_ancestors" =>
        /\ out.name \in Range(out.val) <=> OnParentCycle(out.name)
        /\ out.name \in Range(out.val) => out.val[Len(out.val)] = out.name

\* get_ancestors returned for a name on a parent cycle of three types, in a
\* model with no other cycle.
C30_Witness ==
    /\ out.fn = "get_ancestors"
    /\ Len(out.val) = 3
    /\ out.val[3] = out.name
    /\ OnParentCycle(out.name)

====
